---- MODULE Spec2Model ----
(***************************************************************************)
(* Model of src/shared/condition.c: the Condition record, the comparator   *)
(* scanner parse_order, the evaluators reached through condition_test and  *)
(* the list composer condition_test_list.                                  *)
(*                                                                         *)
(* C strings are sequences of one-character strings; a cursor into a       *)
(* string is the suffix that starts at the cursor.  A C int return value   *)
(* is an integer: negative = -errno, 0 = false, positive = true.           *)
(***************************************************************************)
EXTENDS Integers, Sequences, FiniteSets, TLC

VARIABLES conds, host, last, po

vars == <<conds, host, last, po>>

(***************************************************************************)
(* Bounds of the model.                                                    *)
(***************************************************************************)
MaxLen == 2
MaxScan == 3
MaxFree == 3

(***************************************************************************)
(* errno values used by condition.c.                                       *)
(***************************************************************************)
ENOENT == 2
EIO == 5
EINVAL == 22
ERANGE == 34
ENODATA == 61
ENXIO == 6
ENOTDIR == 20

\* syslog levels.
LOG_WARNING == 4
LOG_DEBUG == 7

(***************************************************************************)
(* Characters and C string helpers.                                        *)
(***************************************************************************)
\* A null char pointer: a sequence that is no string of characters.
NULL == <<"NULL">>

WHITESPACE == {" ", "\t", "\n", "\r"}

DIGITS == <<"0", "1", "2", "3", "4", "5", "6", "7", "8", "9">>

UPPERCASE_LETTERS == <<"A", "B", "C", "D", "E", "F", "G", "H", "I", "J", "K", "L", "M",
                       "N", "O", "P", "Q", "R", "S", "T", "U", "V", "W", "X", "Y", "Z">>

LOWERCASE_LETTERS == <<"a", "b", "c", "d", "e", "f", "g", "h", "i", "j", "k", "l", "m",
                       "n", "o", "p", "q", "r", "s", "t", "u", "v", "w", "x", "y", "z">>

\* The characters of the model in ASCII order; Ord gives a character's rank.
ascii == <<"\t", "\n", "\r", " ", "!", "$", "%", "(", ")", "*", ",", "-", ".", "/">> \o DIGITS
         \o <<":", "<", "=", ">", "?">> \o UPPERCASE_LETTERS \o <<"^", "_">>
         \o LOWERCASE_LETTERS \o <<"~">>

Range(f) == {f[i] : i \in DOMAIN f}

Ord(ch) == CHOOSE i \in DOMAIN ascii : ascii[i] = ch

CMP(a, b) == IF a < b THEN -1 ELSE IF a > b THEN 1 ELSE 0

BoolToInt(b) == IF b THEN 1 ELSE 0

isempty(s) == s = NULL \/ s = <<>>

ascii_isdigit(ch) == ch \in Range(DIGITS)

ascii_isalpha(ch) == ch \in Range(UPPERCASE_LETTERS) \cup Range(LOWERCASE_LETTERS)

\* The character under a cursor; "" stands for the terminating NUL.
At(s) == IF s = <<>> THEN "" ELSE Head(s)

\* startswith(s, prefix): the cursor after the prefix, or NULL.
startswith(s, prefix) ==
    IF Len(prefix) <= Len(s) /\ SubSeq(s, 1, Len(prefix)) = prefix
    THEN SubSeq(s, Len(prefix) + 1, Len(s))
    ELSE NULL

streq(a, b) == a = b

\* s + strspn(s, accept): the cursor after the leading characters of accept.
RECURSIVE skip_chars(_, _)
skip_chars(s, accept) ==
    IF s # <<>> /\ Head(s) \in accept THEN skip_chars(Tail(s), accept) ELSE s

\* The leading characters of s that are not in reject (strcspn).
RECURSIVE take_until(_, _)
take_until(s, reject) ==
    IF s = <<>> \/ Head(s) \in reject THEN <<>>
    ELSE <<Head(s)>> \o take_until(Tail(s), reject)

RECURSIVE drop_trailing(_, _)
drop_trailing(s, accept) ==
    IF s # <<>> /\ s[Len(s)] \in accept
    THEN drop_trailing(SubSeq(s, 1, Len(s) - 1), accept)
    ELSE s

strstrip(s) == drop_trailing(skip_chars(s, WHITESPACE), WHITESPACE)

ascii_tolower(ch) ==
    IF ch \in Range(UPPERCASE_LETTERS)
    THEN LOWERCASE_LETTERS[CHOOSE i \in DOMAIN UPPERCASE_LETTERS : UPPERCASE_LETTERS[i] = ch]
    ELSE ch

ascii_strlower(s) == [i \in DOMAIN s |-> ascii_tolower(s[i])]

path_is_absolute(p) == At(p) = "/"

(***************************************************************************)
(* extract_first_word(&p, &word, NULL, flags) for input without quotes or  *)
(* backslashes: skips leading whitespace, returns r = 0 at the end of the  *)
(* input, otherwise r = 1, the word up to the next whitespace and the      *)
(* cursor after the separators that follow it.                             *)
(***************************************************************************)
extract_first_word(p) ==
    LET start == skip_chars(p, WHITESPACE)
        word  == take_until(start, WHITESPACE)
    IN  IF start = <<>>
        THEN [r |-> 0, word |-> NULL, p |-> NULL]
        ELSE [r |-> 1, word |-> word,
              p |-> skip_chars(SubSeq(start, Len(word) + 1, Len(start)), WHITESPACE)]

(***************************************************************************)
(* extract_many_words(&p, separators, 0, &first, &second, NULL): two calls *)
(* of extract_first_word with the given separators; r counts the words     *)
(* found.                                                                  *)
(***************************************************************************)
extract_first_word_by(p, separators) ==
    LET start == skip_chars(p, separators)
        word  == take_until(start, separators)
    IN  IF start = <<>>
        THEN [r |-> 0, word |-> NULL, p |-> <<>>]
        ELSE [r |-> 1, word |-> word,
              p |-> skip_chars(SubSeq(start, Len(word) + 1, Len(start)), separators)]

extract_second_word(w1, w2) ==
    IF w1.r = 0 THEN [r |-> 0, first |-> NULL, second |-> NULL]
    ELSE IF w2.r = 0 THEN [r |-> 1, first |-> w1.word, second |-> NULL]
    ELSE [r |-> 2, first |-> w1.word, second |-> w2.word]

extract_two_words(w1, separators) ==
    extract_second_word(w1, extract_first_word_by(w1.p, separators))

extract_many_words(p, separators) ==
    extract_two_words(extract_first_word_by(p, separators), separators)

(***************************************************************************)
(* fnmatch(pattern, string, 0) == 0 for patterns made of literals, ? and * *)
(***************************************************************************)
RECURSIVE fnmatch(_, _)
fnmatch(pattern, string) ==
    IF pattern = <<>> THEN string = <<>>
    ELSE IF Head(pattern) = "*"
         THEN \E k \in 0..Len(string) :
                  fnmatch(Tail(pattern), SubSeq(string, k + 1, Len(string)))
    ELSE IF string = <<>> THEN FALSE
    ELSE (Head(pattern) = "?" \/ Head(pattern) = Head(string))
         /\ fnmatch(Tail(pattern), Tail(string))

(***************************************************************************)
(* strverscmp_improved(a, b): segment-wise version comparison; returns     *)
(* -1, 0 or 1.                                                             *)
(***************************************************************************)
is_valid(ch) == ascii_isdigit(ch) \/ ascii_isalpha(ch) \/ ch \in {"~", "-", "^", "."}

RECURSIVE drop_invalid(_)
drop_invalid(s) ==
    IF s # <<>> /\ ~is_valid(Head(s)) THEN drop_invalid(Tail(s)) ELSE s

RECURSIVE take_while_digit(_)
take_while_digit(s) ==
    IF s # <<>> /\ ascii_isdigit(Head(s)) THEN <<Head(s)>> \o take_while_digit(Tail(s))
    ELSE <<>>

RECURSIVE take_while_alpha(_)
take_while_alpha(s) ==
    IF s # <<>> /\ ascii_isalpha(Head(s)) THEN <<Head(s)>> \o take_while_alpha(Tail(s))
    ELSE <<>>

\* strncmp(a, b, n) on strings that both hold at least n characters.
RECURSIVE strncmp(_, _, _)
strncmp(a, b, n) ==
    IF n = 0 THEN 0
    ELSE IF Head(a) # Head(b) THEN CMP(Ord(Head(a)), Ord(Head(b)))
    ELSE strncmp(Tail(a), Tail(b), n - 1)

Min(a, b) == IF a < b THEN a ELSE b

Drop(s, n) == SubSeq(s, n + 1, Len(s))

RECURSIVE strverscmp_improved(_, _)

\* A numeric segment: na, nb are the digit runs at a and b, za, zb the runs
\* without their leading zeros.
verscmp_numbers(a, b, na, nb, za, zb) ==
    IF (na # <<>>) # (nb # <<>>) THEN CMP(BoolToInt(na # <<>>), BoolToInt(nb # <<>>))
    ELSE IF Len(za) # Len(zb) THEN CMP(Len(za), Len(zb))
    ELSE IF strncmp(za, zb, Len(za)) # 0 THEN CMP(strncmp(za, zb, Len(za)), 0)
    ELSE strverscmp_improved(Drop(a, Len(na)), Drop(b, Len(nb)))

\* An alphabetic segment: aa, ab are the letter runs at a and b.
verscmp_letters(a, b, aa, ab) ==
    IF strncmp(aa, ab, Min(Len(aa), Len(ab))) # 0
    THEN CMP(strncmp(aa, ab, Min(Len(aa), Len(ab))), 0)
    ELSE IF Len(aa) # Len(ab) THEN CMP(Len(aa), Len(ab))
    ELSE strverscmp_improved(Drop(a, Len(aa)), Drop(b, Len(ab)))

verscmp_segment(a, b) ==
    IF ascii_isdigit(At(a)) \/ ascii_isdigit(At(b))
    THEN verscmp_numbers(a, b, take_while_digit(a), take_while_digit(b),
                         skip_chars(take_while_digit(a), {"0"}),
                         skip_chars(take_while_digit(b), {"0"}))
    ELSE verscmp_letters(a, b, take_while_alpha(a), take_while_alpha(b))

\* A separator step: one of the cursors is at the separator ch.
has_sep(a, b, ch) == At(a) = ch \/ At(b) = ch

\* The string that carries the separator is older; 0 when both carry it.
sep_cmp(a, b, ch) == CMP(BoolToInt(At(a) # ch), BoolToInt(At(b) # ch))

\* The cursor s after a separator step that did not decide.
skip_sep(s, a, b, ch) == IF has_sep(a, b, ch) THEN Drop(s, 1) ELSE s

verscmp_dot(a, b) ==
    IF has_sep(a, b, ".") /\ sep_cmp(a, b, ".") # 0 THEN sep_cmp(a, b, ".")
    ELSE verscmp_segment(skip_sep(a, a, b, "."), skip_sep(b, a, b, "."))

verscmp_caret(a, b) ==
    IF has_sep(a, b, "^") /\ sep_cmp(a, b, "^") # 0 THEN sep_cmp(a, b, "^")
    ELSE verscmp_dot(skip_sep(a, a, b, "^"), skip_sep(b, a, b, "^"))

verscmp_dash(a, b) ==
    IF has_sep(a, b, "-") /\ sep_cmp(a, b, "-") # 0 THEN sep_cmp(a, b, "-")
    ELSE verscmp_caret(skip_sep(a, a, b, "-"), skip_sep(b, a, b, "-"))

\* If at least one string reaches the end, the longer one is newer.
verscmp_end(a, b) ==
    IF a = <<>> \/ b = <<>> THEN CMP(BoolToInt(a # <<>>), BoolToInt(b # <<>>))
    ELSE verscmp_dash(a, b)

verscmp_tilde(a, b) ==
    IF has_sep(a, b, "~") /\ sep_cmp(a, b, "~") # 0 THEN sep_cmp(a, b, "~")
    ELSE verscmp_end(skip_sep(a, a, b, "~"), skip_sep(b, a, b, "~"))

strempty(s) == IF s = NULL THEN <<>> ELSE s

strverscmp_improved(a, b) ==
    verscmp_tilde(drop_invalid(strempty(a)), drop_invalid(strempty(b)))

(***************************************************************************)
(* The comparator grammar: OrderOperator, parse_order, test_order.         *)
(***************************************************************************)
ORDER_FNMATCH_EQUAL == 0
ORDER_FNMATCH_UNEQUAL == 1
ORDER_LOWER_OR_EQUAL == 2
ORDER_GREATER_OR_EQUAL == 3
ORDER_LOWER == 4
ORDER_GREATER == 5
ORDER_EQUAL == 6
ORDER_UNEQUAL == 7
ORDER_MAX == 8
ORDER_FNMATCH_FIRST == ORDER_FNMATCH_EQUAL
ORDER_FNMATCH_LAST == ORDER_FNMATCH_UNEQUAL
ORDER_INVALID == -EINVAL

prefix ==
    [i \in 0..(ORDER_MAX - 1) |->
        CASE i = ORDER_FNMATCH_EQUAL    -> <<"=", "$">>
          [] i = ORDER_FNMATCH_UNEQUAL  -> <<"!", "=", "$">>
          [] i = ORDER_LOWER_OR_EQUAL   -> <<"<", "=">>
          [] i = ORDER_GREATER_OR_EQUAL -> <<">", "=">>
          [] i = ORDER_LOWER            -> <<"<">>
          [] i = ORDER_GREATER          -> <<">">>
          [] i = ORDER_EQUAL            -> <<"=">>
          [] i = ORDER_UNEQUAL          -> <<"!", "=">>]

\* The for loop of parse_order from index i on; s is the cursor *s.
RECURSIVE parse_order_from(_, _, _)
parse_order_from(s, allow_fnmatch, i) ==
    IF i >= ORDER_MAX THEN [order |-> ORDER_INVALID, s |-> s]
    ELSE IF startswith(s, prefix[i]) # NULL
         THEN IF ~allow_fnmatch /\ i >= ORDER_FNMATCH_FIRST /\ i <= ORDER_FNMATCH_LAST
              THEN [order |-> ORDER_INVALID, s |-> s]
              ELSE [order |-> i, s |-> startswith(s, prefix[i])]
    ELSE parse_order_from(s, allow_fnmatch, i + 1)

\* The loop with continue in place of break at a glob operator that is not allowed.
RECURSIVE parse_order_from_continue(_, _, _)
parse_order_from_continue(s, allow_fnmatch, i) ==
    IF i >= ORDER_MAX THEN [order |-> ORDER_INVALID, s |-> s]
    ELSE IF startswith(s, prefix[i]) # NULL
            /\ (allow_fnmatch \/ i < ORDER_FNMATCH_FIRST \/ i > ORDER_FNMATCH_LAST)
         THEN [order |-> i, s |-> startswith(s, prefix[i])]
    ELSE parse_order_from_continue(s, allow_fnmatch, i + 1)

parse_order_continue(s, allow_fnmatch) == parse_order_from_continue(s, allow_fnmatch, 0)

parse_order(s, allow_fnmatch) == parse_order_from(s, allow_fnmatch, 0)

test_order(k, p) ==
    CASE p = ORDER_LOWER            -> k < 0
      [] p = ORDER_LOWER_OR_EQUAL   -> k <= 0
      [] p = ORDER_EQUAL            -> k = 0
      [] p = ORDER_UNEQUAL          -> k # 0
      [] p = ORDER_GREATER_OR_EQUAL -> k >= 0
      [] p = ORDER_GREATER          -> k > 0

(***************************************************************************)
(* The Condition record and the host facts the evaluators read.            *)
(***************************************************************************)
CONDITION_UNTESTED == "untested"
CONDITION_SUCCEEDED == "succeeded"
CONDITION_FAILED == "failed"
CONDITION_ERROR == "error"

ConditionResult == {CONDITION_UNTESTED, CONDITION_SUCCEEDED, CONDITION_FAILED, CONDITION_ERROR}

CONDITION_KERNEL_VERSION == "KernelVersion"
CONDITION_NEEDS_UPDATE == "NeedsUpdate"
CONDITION_PATH_IS_READ_WRITE == "PathIsReadWrite"
CONDITION_CPU_FEATURE == "CPUFeature"
CONDITION_CREDENTIAL == "Credential"
CONDITION_SECURITY == "Security"
CONDITION_AC_POWER == "ACPower"
CONDITION_ARCHITECTURE == "Architecture"
CONDITION_FIRMWARE == "Firmware"
CONDITION_FIRST_BOOT == "FirstBoot"
CONDITION_OS_RELEASE == "OSRelease"
CONDITION_VIRTUALIZATION == "Virtualization"
CONDITION_HOST == "Host"
CONDITION_CAPABILITY == "Capability"
CONDITION_PATH_EXISTS == "PathExists"
CONDITION_PATH_EXISTS_GLOB == "PathExistsGlob"
CONDITION_PATH_IS_DIRECTORY == "PathIsDirectory"
CONDITION_PATH_IS_SYMBOLIC_LINK == "PathIsSymbolicLink"
CONDITION_PATH_IS_MOUNT_POINT == "PathIsMountPoint"
CONDITION_PATH_IS_ENCRYPTED == "PathIsEncrypted"
CONDITION_DIRECTORY_NOT_EMPTY == "DirectoryNotEmpty"
CONDITION_FILE_NOT_EMPTY == "FileNotEmpty"
CONDITION_FILE_IS_EXECUTABLE == "FileIsExecutable"
CONDITION_USER == "User"
CONDITION_GROUP == "Group"
CONDITION_CPUS == "CPUs"
CONDITION_MEMORY == "Memory"
CONDITION_CONTROL_GROUP_CONTROLLER == "ControlGroupController"
CONDITION_KERNEL_COMMAND_LINE == "KernelCommandLine"
CONDITION_ENVIRONMENT == "Environment"
CONDITION_MEMORY_PRESSURE == "MemoryPressure"
CONDITION_CPU_PRESSURE == "CPUPressure"
CONDITION_IO_PRESSURE == "IOPressure"

\* _CONDITION_TYPE_INVALID: the negative value of the type that is no kind.
CONDITION_TYPE_INVALID == "invalid"

\* The record of condition_new before the parameter is copied into it: the
\* compound literal of lines 72-76 leaves parameter NULL and result zero.
condition_new_without_copy(type, parameter, trigger, negate) ==
    [type |-> type, parameter |-> NULL, trigger |-> trigger, negate |-> negate,
     result |-> CONDITION_UNTESTED]

\* condition_new(type, parameter, trigger, negate): the record it returns.
condition_new(type, parameter, trigger, negate) ==
    [type |-> type, parameter |-> parameter, trigger |-> trigger, negate |-> negate,
     result |-> CONDITION_UNTESTED]

\* LIST_REMOVE(conditions, head, c), c being the element at position i.
LIST_REMOVE(head, i) == SubSeq(head, 1, i - 1) \o SubSeq(head, i + 1, Len(head))

\* The loop that stops at the first condition it keeps.
RECURSIVE free_list_head_only(_, _, _)
free_list_head_only(head, type, i) ==
    IF i > Len(head) THEN head
    ELSE IF type = CONDITION_TYPE_INVALID \/ head[i].type = type
    THEN free_list_head_only(LIST_REMOVE(head, i), type, i)
    ELSE head

\* LIST_FOREACH from the element at position i on (lines 95-99): removing
\* the element leaves its successor at position i.
RECURSIVE free_list_from(_, _, _)
free_list_from(head, type, i) ==
    IF i > Len(head) THEN head
    ELSE IF type = CONDITION_TYPE_INVALID \/ head[i].type = type
    THEN free_list_from(LIST_REMOVE(head, i), type, i)
    ELSE free_list_from(head, type, i + 1)

\* condition_free_list_type(head, type): the head it returns, as a list.
condition_free_list_type(head, type) == free_list_from(head, type, 1)

\* Host fact providers.  h is the host; each provider returns what the C
\* function of that name returns.
uname_release(h) == h.release

path_is_read_only_fs(h, path) ==
    IF path \in DOMAIN h.read_only_fs THEN h.read_only_fs[path] ELSE -ENOENT

has_cpu_with_flag(h, flag) == flag \in h.cpu_flags

(***************************************************************************)
(* condition_test_kernel_version                                           *)
(***************************************************************************)
\* A sub-expression with outcome r ends the loop with false (line 303).
\* The variant that never takes the early return:
expression_fails_never(r) == FALSE

expression_fails(r) == r = 0

\* One sub-expression, w being the word just extracted (lines 279-301):
\* [err, r, p], err < 0 for an early error return, else r the outcome
\* and p the cursor after the sub-expression.
kernel_version_expression(w, first, release) ==
    LET s0 == strstrip(w.word)
        o  == parse_order(s0, FALSE)
        s1 == skip_chars(o.s, WHITESPACE)
        w2 == extract_first_word(w.p)
    IN  IF o.order < 0
        THEN [err |-> 0, r |-> BoolToInt(fnmatch(o.s, release)), p |-> w.p]
        ELSE IF ~isempty(s1)
        THEN [err |-> 0, r |-> BoolToInt(test_order(strverscmp_improved(release, s1), o.order)),
              p |-> w.p]
        ELSE IF ~first THEN [err |-> -EINVAL, r |-> 0, p |-> w.p]
        ELSE IF w2.r < 0 THEN [err |-> w2.r, r |-> 0, p |-> w.p]
        ELSE IF w2.r = 0 THEN [err |-> -EINVAL, r |-> 0, p |-> w.p]
        ELSE [err |-> 0,
              r |-> BoolToInt(test_order(strverscmp_improved(release, w2.word), o.order)),
              p |-> w2.p]

\* The for loop from cursor p on (lines 268-309).
RECURSIVE kernel_version_loop(_, _, _)
\* The loop body that never clears first.
kernel_version_body_first_kept(w, e, release) ==
    IF w.r < 0 THEN w.r
    ELSE IF w.r = 0 THEN 1
    ELSE IF e.err < 0 THEN e.err
    ELSE IF expression_fails(e.r) THEN 0
    ELSE kernel_version_loop(e.p, TRUE, release)

\* The loop body after the sub-expression of word w gave e.
kernel_version_body(w, e, release) ==
    IF w.r < 0 THEN w.r
    ELSE IF w.r = 0 THEN 1
    ELSE IF e.err < 0 THEN e.err
    ELSE IF expression_fails(e.r) THEN 0
    ELSE kernel_version_loop(e.p, FALSE, release)

kernel_version_word(w, first, release) ==
    kernel_version_body(w, kernel_version_expression(w, first, release), release)

kernel_version_loop(p, first, release) ==
    kernel_version_word(extract_first_word(p), first, release)

condition_test_kernel_version(c, h) ==
    [r |-> kernel_version_loop(c.parameter, TRUE, uname_release(h)),
     parameter |-> c.parameter]

(***************************************************************************)
(* condition_test_path_is_read_write                                       *)
(***************************************************************************)
\* The same without the ENOENT exception.
path_is_read_write_result_no_enoent(r) == BoolToInt(r <= 0)

path_is_read_write_result(r) == BoolToInt(r <= 0 /\ r # -ENOENT)

condition_test_path_is_read_write(c, h) ==
    [r |-> path_is_read_write_result(path_is_read_only_fs(h, c.parameter)),
     parameter |-> c.parameter]

(***************************************************************************)
(* condition_test_cpufeature: ascii_strlower lowercases c->parameter in    *)
(* place and returns it.                                                   *)
(***************************************************************************)
condition_test_cpufeature(c, h) ==
    LET lowered == ascii_strlower(c.parameter) IN
    [r |-> BoolToInt(has_cpu_with_flag(h, lowered)), parameter |-> lowered]

(***************************************************************************)
(* condition_test_needs_update                                             *)
(***************************************************************************)
NSEC_PER_SEC == 1000000000

\* proc_cmdline_get_bool("systemd.condition-needs-update", &b): [r, b].
proc_cmdline_get_bool_needs_update(h) == h.cmdline_needs_update

in_initrd(h) == h.in_initrd

\* lstat(path, &st): [r, sec, nsec], r = -errno on failure.
lstat_updated(h) == h.updated
lstat_usr(h) == h.usr

\* parse_env_file(NULL, p, "TIMESTAMP_NSEC", &timestamp_str): [r, str].
parse_env_file_timestamp(h) == h.timestamp

\* safe_atou64 on a string of decimal digits: [r, value].
RECURSIVE decimal_value(_, _)
decimal_value(s, acc) ==
    IF s = <<>> THEN acc
    ELSE decimal_value(Tail(s), acc * 10 + (Ord(Head(s)) - Ord("0")))

safe_atou64(s) ==
    IF s # <<>> /\ \A i \in DOMAIN s : ascii_isdigit(s[i])
    THEN [r |-> 0, value |-> decimal_value(s, 0)]
    ELSE [r |-> -EINVAL, value |-> 0]

timespec_load_nsec(ts) == ts.sec * NSEC_PER_SEC + ts.nsec

\* The guard as "both nanosecond fields are set".
nsec_decides_both_set(usr, other) == usr.nsec > 0 /\ other.nsec > 0

\* The nanosecond guard of condition_test_needs_update (line 876): the
\* nanosecond comparison decides.
nsec_decides(usr, other) == usr.nsec = 0 \/ other.nsec > 0

\* The same with the comparison of the seconds turned around.
needs_update_by_timestamps_older(usr, other, ts) ==
    IF usr.sec # other.sec THEN BoolToInt(usr.sec < other.sec)
    ELSE IF nsec_decides(usr, other) THEN BoolToInt(usr.nsec > other.nsec)
    ELSE IF ts.r < 0 THEN 1
    ELSE IF isempty(ts.str) THEN 1
    ELSE IF safe_atou64(ts.str).r < 0 THEN 1
    ELSE BoolToInt(timespec_load_nsec(usr) > safe_atou64(ts.str).value)

\* The part after both lstat calls succeeded (lines 862-897).
needs_update_by_timestamps(usr, other, ts) ==
    IF usr.sec # other.sec THEN BoolToInt(usr.sec > other.sec)
    ELSE IF nsec_decides(usr, other) THEN BoolToInt(usr.nsec > other.nsec)
    ELSE IF ts.r < 0 THEN 1
    ELSE IF isempty(ts.str) THEN 1
    ELSE IF safe_atou64(ts.str).r < 0 THEN 1
    ELSE BoolToInt(timespec_load_nsec(usr) > safe_atou64(ts.str).value)

\* The same with the absolute-path check ahead of the initrd check.
needs_update_absolute_first(parameter, h) ==
    LET o == proc_cmdline_get_bool_needs_update(h) IN
    IF o.r > 0 THEN BoolToInt(o.b)
    ELSE IF ~path_is_absolute(parameter) THEN 1
    ELSE IF in_initrd(h) THEN 0
    ELSE IF path_is_read_only_fs(h, parameter) > 0 THEN 0
    ELSE IF lstat_updated(h).r < 0 THEN 1
    ELSE IF lstat_usr(h).r < 0 THEN 1
    ELSE needs_update_by_timestamps(lstat_usr(h), lstat_updated(h),
                                    parse_env_file_timestamp(h))

needs_update(parameter, h) ==
    LET o == proc_cmdline_get_bool_needs_update(h) IN
    IF o.r > 0 THEN BoolToInt(o.b)
    ELSE IF in_initrd(h) THEN 0
    ELSE IF ~path_is_absolute(parameter) THEN 1
    ELSE IF path_is_read_only_fs(h, parameter) > 0 THEN 0
    ELSE IF lstat_updated(h).r < 0 THEN 1
    ELSE IF lstat_usr(h).r < 0 THEN 1
    ELSE needs_update_by_timestamps(lstat_usr(h), lstat_updated(h),
                                    parse_env_file_timestamp(h))

condition_test_needs_update(c, h) ==
    [r |-> needs_update(c.parameter, h), parameter |-> c.parameter]

(***************************************************************************)
(* condition_test_psi (MemoryPressure, CPUPressure, IOPressure).           *)
(* A pressure path is a record [root, slice, file]; averages and the limit *)
(* are loadavg_t fixed-point numbers.                                      *)
(***************************************************************************)
FSHIFT == 11

\* store_loadavg_fixed_point(i, f, &ret): the fixed-point number i.f, f in hundredths.
store_loadavg_fixed_point(i, f) == i * (2 ^ FSHIFT) + (f * (2 ^ FSHIFT)) \div 100

\* parse_permyriad(p): a decimal number of 1/10000, or a number of percent
\* with the suffix %; negative errno on anything else.
parse_permyriad_digits(digits, scale) ==
    IF safe_atou64(digits).r < 0 THEN -EINVAL
    ELSE IF safe_atou64(digits).value * scale > 10000 THEN -ERANGE
    ELSE safe_atou64(digits).value * scale

parse_permyriad(p) ==
    IF p # <<>> /\ p[Len(p)] = "%"
    THEN parse_permyriad_digits(SubSeq(p, 1, Len(p) - 1), 100)
    ELSE parse_permyriad_digits(p, 1)

is_pressure_supported(h) == h.pressure_supported

\* cg_all_unified(): > 0 unified, 0 not, negative errno.
cg_all_unified(h) == h.cg_all_unified

\* cg_mask_supported(&mask): [r, mask].
cg_mask_supported(h) == h.cg_mask_supported

\* cg_slice_to_path(slice, &path): [r, path] for slice names without dashes.
cg_slice_to_path(slice) ==
    IF Len(slice) > 6 /\ SubSeq(slice, Len(slice) - 5, Len(slice)) = <<".", "s", "l", "i", "c", "e">>
    THEN [r |-> 0, path |-> slice]
    ELSE [r |-> -EINVAL, path |-> NULL]

\* cg_pid_get_path(SYSTEMD_CGROUP_CONTROLLER, getpid_cached(), &root_scope):
\* [r, path], the path as the sequence of its components.
cg_pid_get_path(h) == h.root_scope

SPECIAL_INIT_SCOPE == "init.scope"

\* root_scope with a trailing /init.scope dropped (lines 1135-1137).
drop_init_scope(root_scope) ==
    IF root_scope # <<>> /\ root_scope[Len(root_scope)] = SPECIAL_INIT_SCOPE
    THEN SubSeq(root_scope, 1, Len(root_scope) - 1)
    ELSE root_scope

\* read_resource_pressure(path, type, &pressure): [r, avg10, avg60, avg300].
read_resource_pressure(h, path, type) ==
    IF path \notin DOMAIN h.pressure
    THEN [r |-> -ENOENT, avg10 |-> 0, avg60 |-> 0, avg300 |-> 0]
    ELSE h.pressure[path][type]

psi_pressure_type(type) ==
    IF type = CONDITION_MEMORY_PRESSURE THEN "memory"
    ELSE IF type = CONDITION_CPU_PRESSURE THEN "cpu"
    ELSE "io"

\* strjoina(pressure_type, ".pressure")
psi_controller(type) ==
    IF type = CONDITION_MEMORY_PRESSURE THEN "memory.pressure"
    ELSE IF type = CONDITION_CPU_PRESSURE THEN "cpu.pressure"
    ELSE "io.pressure"

CGROUP_MASK_CPU == "cpu"
CGROUP_MASK_IO == "io"
CGROUP_MASK_MEMORY == "memory"

psi_required_mask(type) ==
    IF type = CONDITION_MEMORY_PRESSURE THEN CGROUP_MASK_MEMORY
    ELSE IF type = CONDITION_CPU_PRESSURE THEN CGROUP_MASK_CPU
    ELSE CGROUP_MASK_IO

\* The same with a strict comparison.
psi_compare_less(window, limit, pressure) ==
    IF pressure.r = -ENOENT THEN 1
    ELSE IF pressure.r < 0 THEN pressure.r
    ELSE BoolToInt(pressure[window] < limit)

\* The last step (lines 1195-1204), pressure being what was read.
psi_compare(window, limit, pressure) ==
    IF pressure.r = -ENOENT THEN 1
    ELSE IF pressure.r < 0 THEN pressure.r
    ELSE BoolToInt(pressure[window] <= limit)

\* The full line, or the some line when the full line is absent (lines 1192-1194).
psi_fallback(h, path, full) ==
    IF full.r = -ENODATA THEN read_resource_pressure(h, path, "some") ELSE full

psi_read(h, path, window, limit) ==
    psi_compare(window, limit,
                psi_fallback(h, path, read_resource_pressure(h, path, "full")))

\* Lines 1184-1190, r being what parse_permyriad returned.
psi_limit(h, path, window, r) ==
    IF r < 0 THEN r
    ELSE psi_read(h, path, window, store_loadavg_fixed_point(r \div 100, r % 100))

\* Lines 1161-1178: the window named by the second word.
psi_window(timespan) ==
    IF startswith(timespan, <<"1", "0", "s", "e", "c">>) # NULL THEN "avg10"
    ELSE IF startswith(timespan, <<"1", "m", "i", "n">>) # NULL THEN "avg60"
    ELSE IF startswith(timespan, <<"5", "m", "i", "n">>) # NULL THEN "avg300"
    ELSE "none"

\* Lines 1158-1190, w being the words of value around "/".
psi_words(h, path, w) ==
    IF w.r <= 0 THEN -EINVAL
    ELSE IF w.r = 1
    THEN psi_limit(h, path, "avg300", parse_permyriad(strstrip(w.first)))
    ELSE IF psi_window(skip_chars(w.second, WHITESPACE)) = "none" THEN -EINVAL
    ELSE psi_limit(h, path, psi_window(skip_chars(w.second, WHITESPACE)),
                   parse_permyriad(strstrip(w.first)))

psi_value(h, path, value) == psi_words(h, path, extract_many_words(value, {"/"}))

\* The cgroup form with all checks passed (lines 1124-1152).
psi_cgroup_path(h, type, slice_path, root_scope, value) ==
    IF slice_path.r < 0 THEN slice_path.r
    ELSE IF root_scope.r < 0 THEN root_scope.r
    ELSE psi_value(h, [root |-> drop_init_scope(root_scope.path),
                       slice |-> slice_path.path,
                       file |-> psi_controller(type)], value)

\* The same without the skip on a missing unified hierarchy.
psi_cgroup_no_skip(h, type, slice, value) ==
    IF cg_all_unified(h) < 0 THEN cg_all_unified(h)
    ELSE IF cg_mask_supported(h).r < 0 THEN cg_mask_supported(h).r
    ELSE IF psi_required_mask(type) \notin cg_mask_supported(h).mask THEN 1
    ELSE psi_cgroup_path(h, type, cg_slice_to_path(slice), cg_pid_get_path(h), value)

\* The cgroup form (lines 1094-1153).
psi_cgroup(h, type, slice, value) ==
    IF cg_all_unified(h) < 0 THEN cg_all_unified(h)
    ELSE IF cg_all_unified(h) = 0 THEN 1
    ELSE IF cg_mask_supported(h).r < 0 THEN cg_mask_supported(h).r
    ELSE IF psi_required_mask(type) \notin cg_mask_supported(h).mask THEN 1
    ELSE psi_cgroup_path(h, type, cg_slice_to_path(slice), cg_pid_get_path(h), value)

\* Lines 1083-1153, w being the words of the parameter around ":".
psi_forms(h, type, w) ==
    IF w.r <= 0 THEN -EINVAL
    ELSE IF w.r = 1
    THEN psi_value(h, [root |-> <<"proc", "pressure">>, slice |-> <<>>,
                       file |-> psi_pressure_type(type)], w.first)
    ELSE psi_cgroup(h, type, strstrip(w.first), w.second)

\* The evaluator that splits the parameter before it asks for PSI support.
psi_split_first(parameter, type, h) ==
    IF extract_many_words(parameter, {":"}).r <= 0 THEN -EINVAL
    ELSE IF ~is_pressure_supported(h) THEN 1
    ELSE psi_forms(h, type, extract_many_words(parameter, {":"}))

psi(parameter, type, h) ==
    IF ~is_pressure_supported(h) THEN 1
    ELSE psi_forms(h, type, extract_many_words(parameter, {":"}))

condition_test_psi(c, h) ==
    [r |-> psi(c.parameter, c.type, h), parameter |-> c.parameter]

(***************************************************************************)
(* parse_boolean(v): 1, 0 or -EINVAL.                                      *)
(***************************************************************************)
BooleanTrue == {<<"1">>, <<"y", "e", "s">>, <<"y">>, <<"t", "r", "u", "e">>, <<"t">>, <<"o", "n">>}

BooleanFalse == {<<"0">>, <<"n", "o">>, <<"n">>, <<"f", "a", "l", "s", "e">>, <<"f">>, <<"o", "f", "f">>}

parse_boolean(v) ==
    IF ascii_strlower(v) \in BooleanTrue THEN 1
    ELSE IF ascii_strlower(v) \in BooleanFalse THEN 0
    ELSE -EINVAL

(***************************************************************************)
(* condition_test_ac_power                                                 *)
(***************************************************************************)
\* on_ac_power(): > 0 on AC power, 0 not, negative errno.
on_ac_power(h) == h.on_ac_power

\* The evaluator without the check of what parse_boolean returned.
ac_power_unchecked(r, h) == BoolToInt((on_ac_power(h) # 0) = (r # 0))

\* Lines 730-733, r being what parse_boolean returned.
ac_power(r, h) ==
    IF r < 0 THEN r
    ELSE BoolToInt((on_ac_power(h) # 0) = (r # 0))

condition_test_ac_power(c, h) ==
    [r |-> ac_power(parse_boolean(c.parameter), h), parameter |-> c.parameter]

(***************************************************************************)
(* condition_test_first_boot                                               *)
(***************************************************************************)
\* proc_cmdline_get_bool("systemd.condition-first-boot", &b): [r, b].
proc_cmdline_get_bool_first_boot(h) == h.cmdline_first_boot

\* access("/run/systemd/first-boot", F_OK): 0 or negative errno.
access_first_boot(h) == h.first_boot_access

\* Lines 914-922, r being what parse_boolean returned.
first_boot_by_parameter(r, h) ==
    IF r < 0 THEN r
    ELSE BoolToInt((access_first_boot(h) >= 0) = (r # 0))

\* The evaluator with the parameter parsed ahead of the override.
first_boot_parse_first(o, parameter, h) ==
    IF parse_boolean(parameter) < 0 THEN parse_boolean(parameter)
    ELSE IF o.r > 0 THEN BoolToInt(o.b = (o.r # 0))
    ELSE first_boot_by_parameter(parse_boolean(parameter), h)

\* Lines 908-922, o being what proc_cmdline_get_bool returned.
first_boot(o, parameter, h) ==
    IF o.r > 0 THEN BoolToInt(o.b = (o.r # 0))
    ELSE first_boot_by_parameter(parse_boolean(parameter), h)

condition_test_first_boot(c, h) ==
    [r |-> first_boot(proc_cmdline_get_bool_first_boot(h), c.parameter, h),
     parameter |-> c.parameter]

(***************************************************************************)
(* condition_test_security                                                 *)
(***************************************************************************)
\* The names condition_test_security knows, each with the probe it calls.
SecurityModules ==
    <<[name |-> <<"s", "e", "l", "i", "n", "u", "x">>, probe |-> "mac_selinux_use"],
      [name |-> <<"s", "m", "a", "c", "k">>, probe |-> "mac_smack_use"],
      [name |-> <<"a", "p", "p", "a", "r", "m", "o", "r">>, probe |-> "mac_apparmor_use"],
      [name |-> <<"a", "u", "d", "i", "t">>, probe |-> "use_audit"],
      [name |-> <<"i", "m", "a">>, probe |-> "use_ima"],
      [name |-> <<"t", "o", "m", "o", "y", "o">>, probe |-> "mac_tomoyo_use"],
      [name |-> <<"u", "e", "f", "i", "-", "s", "e", "c", "u", "r", "e", "b", "o", "o", "t">>,
       probe |-> "is_efi_secure_boot"],
      [name |-> <<"t", "p", "m", "2">>, probe |-> "has_tpm2"]>>

\* What a probe returns on the host.
security_probe(h, probe) == BoolToInt(probe \in h.security)

\* The chain of streq tests from entry i on (lines 752-769).
RECURSIVE security_from(_, _, _)
security_from(parameter, h, i) ==
    IF i > Len(SecurityModules) THEN 0
    ELSE IF streq(parameter, SecurityModules[i].name)
    THEN security_probe(h, SecurityModules[i].probe)
    ELSE security_from(parameter, h, i + 1)

condition_test_security(c, h) ==
    [r |-> security_from(c.parameter, h, 1), parameter |-> c.parameter]

(***************************************************************************)
(* condition_test_architecture                                             *)
(***************************************************************************)
\* uname_architecture(): an architecture name, or [r < 0].
uname_architecture(h) == h.architecture

native_architecture(h) == h.native_architecture

Architectures == {"x86-64", "arm64"}

\* architecture_from_string(s): [r, a].
architecture_from_string(s) ==
    IF s = <<"x", "8", "6", "-", "6", "4">> THEN [r |-> 0, a |-> "x86-64"]
    ELSE IF s = <<"a", "r", "m", "6", "4">> THEN [r |-> 0, a |-> "arm64"]
    ELSE [r |-> -EINVAL, a |-> "invalid"]

\* Lines 544-552, a being the architecture of the host.
architecture_wanted(a, parameter, h) ==
    IF streq(parameter, <<"n", "a", "t", "i", "v", "e">>)
    THEN BoolToInt(a = native_architecture(h))
    ELSE IF architecture_from_string(parameter).r < 0 THEN 0
    ELSE BoolToInt(a = architecture_from_string(parameter).a)

architecture(a, parameter, h) ==
    IF a.r < 0 THEN a.r ELSE architecture_wanted(a.a, parameter, h)

condition_test_architecture(c, h) ==
    [r |-> architecture(uname_architecture(h), c.parameter, h), parameter |-> c.parameter]

(***************************************************************************)
(* condition_test_credential                                               *)
(***************************************************************************)
\* credential_name_valid(s): a file name that is no directory entry . or ..
credential_name_valid(s) ==
    /\ s # <<>>
    /\ s \notin {<<".">>, <<".", ".">>}
    /\ \A i \in DOMAIN s : s[i] # "/"

\* get_credentials_dir, get_encrypted_credentials_dir: [r, names], names
\* the credentials found in the directory, r = -ENXIO without a directory.
credentials_dirs(h) == <<h.credentials_dir, h.encrypted_credentials_dir>>

\* laccess(path_join(cd, name), F_OK): 0 or negative errno.
laccess_credential(dir, name) ==
    IF name \in dir.names THEN 0
    ELSE IF name \in dir.unreadable THEN -EIO
    ELSE -ENOENT

\* The loop that skips a directory on any failure of its provider.
RECURSIVE credential_from_skipping_failures(_, _, _)
credential_from_skipping_failures(dirs, name, i) ==
    IF i > Len(dirs) THEN 0
    ELSE IF dirs[i].r < 0 THEN credential_from_skipping_failures(dirs, name, i + 1)
    ELSE IF laccess_credential(dirs[i], name) >= 0 THEN 1
    ELSE IF laccess_credential(dirs[i], name) # -ENOENT
    THEN laccess_credential(dirs[i], name)
    ELSE credential_from_skipping_failures(dirs, name, i + 1)

\* The loop over the two directories from position i on (lines 160-179).
RECURSIVE credential_from(_, _, _)
credential_from(dirs, name, i) ==
    IF i > Len(dirs) THEN 0
    ELSE IF dirs[i].r = -ENXIO THEN credential_from(dirs, name, i + 1)
    ELSE IF dirs[i].r < 0 THEN dirs[i].r
    ELSE IF laccess_credential(dirs[i], name) >= 0 THEN 1
    ELSE IF laccess_credential(dirs[i], name) # -ENOENT
    THEN laccess_credential(dirs[i], name)
    ELSE credential_from(dirs, name, i + 1)

credential(parameter, h) ==
    IF ~credential_name_valid(parameter) THEN 0
    ELSE credential_from(credentials_dirs(h), parameter, 1)

condition_test_credential(c, h) ==
    [r |-> credential(c.parameter, h), parameter |-> c.parameter]

(***************************************************************************)
(* condition_test_firmware                                                 *)
(***************************************************************************)
\* extract_first_word(&p, &word, separators, EXTRACT_RETAIN_SEPARATORS):
\* leading separators are skipped, the separator that ends the word stays
\* under the cursor, and the cursor is NULL at the end of the input.
extract_first_word_retain(p, separators) ==
    LET start == skip_chars(p, separators)
        word  == take_until(start, separators)
    IN  IF start = <<>> THEN [r |-> 0, word |-> NULL, p |-> NULL]
        ELSE IF Len(word) = Len(start) THEN [r |-> 1, word |-> word, p |-> NULL]
        ELSE [r |-> 1, word |-> word, p |-> SubSeq(start, Len(word) + 1, Len(start))]

filename_is_valid(s) ==
    /\ s # <<>>
    /\ s \notin {<<".">>, <<".", ".">>}
    /\ \A i \in DOMAIN s : s[i] # "/"

\* access("/sys/firmware/device-tree/", F_OK)
access_device_tree(h) == h.device_tree_access

is_efi_boot(h) == h.efi_boot

\* read_full_virtual_file(DTCOMPAT_FILE, &dtcompat, &size): [r, data], data
\* the bytes of the file, "NUL" being the byte 0.
read_dtcompat(h) == h.dtcompat

\* read_virtual_file("/sys/class/dmi/id/<field>"): [r, value].
read_smbios_field(h, field) ==
    IF field \in DOMAIN h.smbios THEN h.smbios[field] ELSE [r |-> -ENOENT, value |-> NULL]

\* strv_parse_nulstr(data, size) for data that ends in NUL.
RECURSIVE strv_parse_nulstr(_)
strv_parse_nulstr(data) ==
    IF data = <<>> THEN <<>>
    ELSE <<take_until(data, {"NUL"})>>
         \o strv_parse_nulstr(SubSeq(data, Len(take_until(data, {"NUL"})) + 2, Len(data)))

\* Lines 563-587, f being what read_full_virtual_file returned.
devicetree_compatible(f, dtcarg) ==
    IF f.r < 0 THEN 0
    ELSE IF Len(f.data) = 0 THEN 0
    ELSE IF f.data[Len(f.data)] # "NUL" THEN 0
    ELSE BoolToInt(dtcarg \in Range(strv_parse_nulstr(f.data)))

condition_test_firmware_devicetree_compatible(dtcarg, h) ==
    devicetree_compatible(read_dtcompat(h), dtcarg)

\* Lines 624-640: the comparison with the value read from sysfs.
smbios_compare(f, operator, expected_value) ==
    IF f.r = -ENOENT THEN 0
    ELSE IF f.r < 0 THEN f.r
    ELSE IF operator = ORDER_FNMATCH_EQUAL
    THEN BoolToInt(fnmatch(expected_value, drop_trailing(f.value, WHITESPACE)))
    ELSE IF operator = ORDER_FNMATCH_UNEQUAL
    THEN BoolToInt(~fnmatch(expected_value, drop_trailing(f.value, WHITESPACE)))
    ELSE BoolToInt(test_order(strverscmp_improved(drop_trailing(f.value, WHITESPACE),
                                                  expected_value), operator))

\* Lines 613-640, w being the word of the expected value.
smbios_value(h, field, operator, w) ==
    IF w.r < 0 THEN w.r
    ELSE IF w.r = 0 \/ ~isempty(w.p) THEN -EINVAL
    ELSE IF ~filename_is_valid(field) THEN -EINVAL
    ELSE smbios_compare(read_smbios_field(h, field), operator, w.word)

\* Lines 608-617, o being what parse_order returned.
smbios_operator(h, field, o) ==
    IF o.order < 0 THEN o.order
    ELSE smbios_value(h, field, o.order, extract_first_word(o.s))

\* The same with the glob comparators disallowed, as in the other evaluators.
smbios_field_glob_disallowed(h, w) ==
    IF w.r < 0 THEN w.r
    ELSE IF w.r = 0 \/ isempty(w.p) THEN -EINVAL
    ELSE smbios_operator(h, drop_trailing(w.word, WHITESPACE), parse_order(w.p, FALSE))

\* Lines 598-610, w being the word of the field.
smbios_field(h, w) ==
    IF w.r < 0 THEN w.r
    ELSE IF w.r = 0 \/ isempty(w.p) THEN -EINVAL
    ELSE smbios_operator(h, drop_trailing(w.word, WHITESPACE), parse_order(w.p, TRUE))

condition_test_firmware_smbios_field(expression, h) ==
    smbios_field(h, extract_first_word_retain(expression, {"!", "<", "=", ">", "$"}))

\* strrchr(arg, ')') finds the last character of arg.
ends_with_paren(arg) == arg # <<>> /\ arg[Len(arg)] = ")"

\* The device-tree-compatible( branch returning an error on a malformed expression.
firmware_devicetree_strict(arg, h) ==
    IF ~ends_with_paren(arg) THEN -EINVAL
    ELSE condition_test_firmware_devicetree_compatible(SubSeq(arg, 1, Len(arg) - 1), h)

\* Lines 658-672, arg being the text after "device-tree-compatible(".
firmware_devicetree(arg, h) ==
    IF ~ends_with_paren(arg) THEN 0
    ELSE condition_test_firmware_devicetree_compatible(SubSeq(arg, 1, Len(arg) - 1), h)

\* Lines 675-690, arg being the text after "smbios-field(".
firmware_smbios(arg, h) ==
    IF ~ends_with_paren(arg) THEN -EINVAL
    ELSE condition_test_firmware_smbios_field(SubSeq(arg, 1, Len(arg) - 1), h)

firmware(parameter, h) ==
    IF streq(parameter, <<"d", "e", "v", "i", "c", "e", "-", "t", "r", "e", "e">>)
    THEN BoolToInt(access_device_tree(h) >= 0)
    ELSE IF startswith(parameter, <<"d", "e", "v", "i", "c", "e", "-", "t", "r", "e", "e", "-", "c", "o", "m", "p", "a", "t", "i", "b", "l", "e", "(">>) # NULL
    THEN firmware_devicetree(
             startswith(parameter, <<"d", "e", "v", "i", "c", "e", "-", "t", "r", "e", "e", "-", "c", "o", "m", "p", "a", "t", "i", "b", "l", "e", "(">>), h)
    ELSE IF streq(parameter, <<"u", "e", "f", "i">>) THEN BoolToInt(is_efi_boot(h))
    ELSE IF startswith(parameter, <<"s", "m", "b", "i", "o", "s", "-", "f", "i", "e", "l", "d", "(">>) # NULL
    THEN firmware_smbios(
             startswith(parameter, <<"s", "m", "b", "i", "o", "s", "-", "f", "i", "e", "l", "d", "(">>), h)
    ELSE 0

condition_test_firmware(c, h) ==
    [r |-> firmware(c.parameter, h), parameter |-> c.parameter]

(***************************************************************************)
(* condition_test_osrelease                                                *)
(***************************************************************************)
\* env_name_is_valid(key): letters, digits and _, not starting with a digit.
env_name_is_valid(key) ==
    /\ ~isempty(key)
    /\ ~ascii_isdigit(Head(key))
    /\ \A i \in DOMAIN key : ascii_isalpha(key[i]) \/ ascii_isdigit(key[i]) \/ key[i] = "_"

\* parse_os_release(NULL, key, &actual_value): [r, value], value = NULL
\* for a key the file does not set.
parse_os_release(h, key) ==
    IF h.os_release.r < 0 THEN [r |-> h.os_release.r, value |-> NULL]
    ELSE IF key \in DOMAIN h.os_release.fields
    THEN [r |-> 0, value |-> h.os_release.fields[key]]
    ELSE [r |-> 0, value |-> NULL]

\* streq_ptr(a, b): two strings are equal, or both are NULL.
streq_ptr(a, b) == a = b

\* The comparison with every operator taken as a version comparison.
osrelease_matches_by_version(order, actual_value, word) ==
    test_order(strverscmp_improved(actual_value, word), order)

\* Lines 351-356: matches.
osrelease_matches(order, actual_value, word) ==
    IF order = ORDER_EQUAL THEN streq_ptr(actual_value, word)
    ELSE IF order = ORDER_UNEQUAL THEN ~streq_ptr(actual_value, word)
    ELSE test_order(strverscmp_improved(actual_value, word), order)

RECURSIVE osrelease_loop(_, _)

\* The same with the remaining items processed before the verdict on this one.
osrelease_compare_rest_first(h, parameter, o, a) ==
    IF a.r < 0 THEN a.r
    ELSE IF osrelease_loop(h, parameter) < 0 THEN osrelease_loop(h, parameter)
    ELSE IF ~osrelease_matches(o.order, a.value, o.s) THEN 0
    ELSE osrelease_loop(h, parameter)

\* Lines 346-359, a being what parse_os_release returned.
osrelease_compare(h, parameter, o, a) ==
    IF a.r < 0 THEN a.r
    ELSE IF ~osrelease_matches(o.order, a.value, o.s) THEN 0
    ELSE osrelease_loop(h, parameter)

\* Lines 341-346, o being what parse_order returned.
osrelease_order(h, parameter, key, o) ==
    IF o.order < 0 \/ isempty(o.s) \/ At(o.s) \in WHITESPACE THEN -EINVAL
    ELSE osrelease_compare(h, parameter, o, parse_os_release(h, key))

\* Lines 332-341, k being the word of the key.
osrelease_key(h, parameter, k) ==
    IF k.r < 0 THEN k.r
    ELSE IF k.r = 0 \/ isempty(k.p) \/ ~env_name_is_valid(k.word) THEN -EINVAL
    ELSE osrelease_order(h, parameter, k.word, parse_order(k.p, FALSE))

\* Lines 324-332, w being the item extracted.
osrelease_item(h, w) ==
    IF w.r < 0 THEN w.r
    ELSE IF w.r = 0 THEN 1
    ELSE osrelease_key(h, w.p, extract_first_word_retain(w.word, {"!", "<", "=", ">"}))

\* The for loop from the cursor parameter on (lines 318-360).
osrelease_loop(h, parameter) == osrelease_item(h, extract_first_word(parameter))

condition_test_osrelease(c, h) ==
    [r |-> osrelease_loop(h, c.parameter), parameter |-> c.parameter]

(***************************************************************************)
(* condition_test_control_group_controller                                 *)
(***************************************************************************)
CGROUP_MASK_PIDS == "pids"

\* cgroup_controller_from_string(n): the controller of that name, or "invalid".
cgroup_controller_from_string(n) ==
    IF n = <<"c", "p", "u">> THEN CGROUP_MASK_CPU
    ELSE IF n = <<"i", "o">> THEN CGROUP_MASK_IO
    ELSE IF n = <<"m", "e", "m", "o", "r", "y">> THEN CGROUP_MASK_MEMORY
    ELSE IF n = <<"p", "i", "d", "s">> THEN CGROUP_MASK_PIDS
    ELSE "invalid"

\* cg_mask_from_string(s, &mask): the controllers named by the words of s,
\* words that name no controller being skipped; [r, mask].
RECURSIVE cg_mask_from_words(_, _)
cg_mask_from_words(w, mask) ==
    IF w.r = 0 THEN mask
    ELSE cg_mask_from_words(extract_first_word(w.p),
                            mask \cup ({cgroup_controller_from_string(w.word)} \ {"invalid"}))

cg_mask_from_string(s) == [r |-> 0, mask |-> cg_mask_from_words(extract_first_word(s), {})]

\* Lines 471-480 with a parameter that names no controller taken as an error.
controllers_wanted_strict(system_mask, wanted) ==
    IF wanted.r < 0 \/ wanted.mask = {} THEN -EINVAL
    ELSE BoolToInt(wanted.mask \subseteq system_mask)

\* Lines 471-480, wanted being what cg_mask_from_string returned.
controllers_wanted(system_mask, wanted) ==
    IF wanted.r < 0 \/ wanted.mask = {} THEN 1
    ELSE BoolToInt(wanted.mask \subseteq system_mask)

\* Lines 467-480, m being what cg_mask_supported returned.
controllers_supported(m, parameter) ==
    IF m.r < 0 THEN m.r
    ELSE controllers_wanted(m.mask, cg_mask_from_string(parameter))

control_group_controller(parameter, h) ==
    IF streq(parameter, <<"v", "2">>) THEN cg_all_unified(h)
    ELSE IF streq(parameter, <<"v", "1">>)
    THEN IF cg_all_unified(h) < 0 THEN cg_all_unified(h)
         ELSE BoolToInt(cg_all_unified(h) = 0)
    ELSE controllers_supported(cg_mask_supported(h), parameter)

condition_test_control_group_controller(c, h) ==
    [r |-> control_group_controller(c.parameter, h), parameter |-> c.parameter]

(***************************************************************************)
(* condition_test_kernel_command_line and condition_test_environment       *)
(***************************************************************************)
\* strchr(s, '=') finds a character.
has_equal_sign(s) == \E i \in DOMAIN s : s[i] = "="

\* proc_cmdline(&line): [r, line].
proc_cmdline(h) == h.proc_cmdline

\* found with any word that starts with the parameter taken as a match.
cmdline_word_found_by_prefix(word, parameter, equal) ==
    IF equal THEN streq(word, parameter)
    ELSE startswith(word, parameter) # NULL

\* Lines 129-136: found.
cmdline_word_found(word, parameter, equal) ==
    IF equal THEN streq(word, parameter)
    ELSE /\ startswith(word, parameter) # NULL
         /\ At(startswith(word, parameter)) \in {"", "="}

\* The for loop, w being the word extracted (lines 118-140).
RECURSIVE kernel_command_line_loop(_, _, _)
kernel_command_line_loop(w, parameter, equal) ==
    IF w.r < 0 THEN w.r
    ELSE IF w.r = 0 THEN 0
    ELSE IF cmdline_word_found(w.word, parameter, equal) THEN 1
    ELSE kernel_command_line_loop(extract_first_word(w.p), parameter, equal)

kernel_command_line(l, parameter) ==
    IF l.r < 0 THEN l.r
    ELSE kernel_command_line_loop(extract_first_word(l.line), parameter,
                                  has_equal_sign(parameter))

condition_test_kernel_command_line(c, h) ==
    [r |-> kernel_command_line(proc_cmdline(h), c.parameter), parameter |-> c.parameter]

\* Lines 937-944: found.
environment_found(entry, parameter, equal) ==
    IF equal THEN streq(parameter, entry)
    ELSE /\ startswith(entry, parameter) # NULL
         /\ At(startswith(entry, parameter)) \in {"", "="}

\* STRV_FOREACH(i, env) from position i on (lines 934-950).
RECURSIVE environment_from(_, _, _, _)
environment_from(env, parameter, equal, i) ==
    IF i > Len(env) THEN 0
    ELSE IF environment_found(env[i], parameter, equal) THEN 1
    ELSE environment_from(env, parameter, equal, i + 1)

\* env is the caller's environment block.
condition_test_environment(c, h) ==
    [r |-> environment_from(h.env, c.parameter, has_equal_sign(c.parameter), 1),
     parameter |-> c.parameter]

(***************************************************************************)
(* The enumeration ConditionType and the three tables indexed by it: the   *)
(* evaluators of condition_test and the names of the two flavours.         *)
(***************************************************************************)
ConditionType ==
    {CONDITION_PATH_EXISTS, CONDITION_PATH_EXISTS_GLOB,
     CONDITION_PATH_IS_DIRECTORY, CONDITION_PATH_IS_SYMBOLIC_LINK,
     CONDITION_PATH_IS_MOUNT_POINT, CONDITION_PATH_IS_READ_WRITE,
     CONDITION_PATH_IS_ENCRYPTED, CONDITION_DIRECTORY_NOT_EMPTY,
     CONDITION_FILE_NOT_EMPTY, CONDITION_FILE_IS_EXECUTABLE,
     CONDITION_KERNEL_COMMAND_LINE, CONDITION_KERNEL_VERSION,
     CONDITION_CREDENTIAL, CONDITION_VIRTUALIZATION, CONDITION_SECURITY,
     CONDITION_CAPABILITY, CONDITION_HOST, CONDITION_AC_POWER,
     CONDITION_ARCHITECTURE, CONDITION_FIRMWARE, CONDITION_NEEDS_UPDATE,
     CONDITION_FIRST_BOOT, CONDITION_USER, CONDITION_GROUP,
     CONDITION_CONTROL_GROUP_CONTROLLER, CONDITION_CPUS, CONDITION_MEMORY,
     CONDITION_ENVIRONMENT, CONDITION_CPU_FEATURE, CONDITION_OS_RELEASE,
     CONDITION_MEMORY_PRESSURE, CONDITION_CPU_PRESSURE,
     CONDITION_IO_PRESSURE}

\* condition_tests[type]: the name of the evaluator, "NULL" for no entry.
condition_tests_table(type) ==
    CASE
         type = CONDITION_PATH_EXISTS -> "condition_test_path_exists"
      [] type = CONDITION_PATH_EXISTS_GLOB -> "condition_test_path_exists_glob"
      [] type = CONDITION_PATH_IS_DIRECTORY -> "condition_test_path_is_directory"
      [] type = CONDITION_PATH_IS_SYMBOLIC_LINK -> "condition_test_path_is_symbolic_link"
      [] type = CONDITION_PATH_IS_MOUNT_POINT -> "condition_test_path_is_mount_point"
      [] type = CONDITION_PATH_IS_READ_WRITE -> "condition_test_path_is_read_write"
      [] type = CONDITION_PATH_IS_ENCRYPTED -> "condition_test_path_is_encrypted"
      [] type = CONDITION_DIRECTORY_NOT_EMPTY -> "condition_test_directory_not_empty"
      [] type = CONDITION_FILE_NOT_EMPTY -> "condition_test_file_not_empty"
      [] type = CONDITION_FILE_IS_EXECUTABLE -> "condition_test_file_is_executable"
      [] type = CONDITION_KERNEL_COMMAND_LINE -> "condition_test_kernel_command_line"
      [] type = CONDITION_KERNEL_VERSION -> "condition_test_kernel_version"
      [] type = CONDITION_CREDENTIAL -> "condition_test_credential"
      [] type = CONDITION_VIRTUALIZATION -> "condition_test_virtualization"
      [] type = CONDITION_SECURITY -> "condition_test_security"
      [] type = CONDITION_CAPABILITY -> "condition_test_capability"
      [] type = CONDITION_HOST -> "condition_test_host"
      [] type = CONDITION_AC_POWER -> "condition_test_ac_power"
      [] type = CONDITION_ARCHITECTURE -> "condition_test_architecture"
      [] type = CONDITION_FIRMWARE -> "condition_test_firmware"
      [] type = CONDITION_NEEDS_UPDATE -> "condition_test_needs_update"
      [] type = CONDITION_FIRST_BOOT -> "condition_test_first_boot"
      [] type = CONDITION_USER -> "condition_test_user"
      [] type = CONDITION_GROUP -> "condition_test_group"
      [] type = CONDITION_CONTROL_GROUP_CONTROLLER -> "condition_test_control_group_controller"
      [] type = CONDITION_CPUS -> "condition_test_cpus"
      [] type = CONDITION_MEMORY -> "condition_test_memory"
      [] type = CONDITION_ENVIRONMENT -> "condition_test_environment"
      [] type = CONDITION_CPU_FEATURE -> "condition_test_cpufeature"
      [] type = CONDITION_OS_RELEASE -> "condition_test_osrelease"
      [] type = CONDITION_MEMORY_PRESSURE -> "condition_test_psi"
      [] type = CONDITION_CPU_PRESSURE -> "condition_test_psi"
      [] type = CONDITION_IO_PRESSURE -> "condition_test_psi"
      [] OTHER -> "NULL"

\* condition_type_table[type], NULL for no entry.
condition_type_table(type) ==
    CASE
         type = CONDITION_ARCHITECTURE -> <<"C", "o", "n", "d", "i", "t", "i", "o", "n", "A", "r", "c", "h", "i", "t", "e", "c", "t", "u", "r", "e">>
      [] type = CONDITION_FIRMWARE -> <<"C", "o", "n", "d", "i", "t", "i", "o", "n", "F", "i", "r", "m", "w", "a", "r", "e">>
      [] type = CONDITION_VIRTUALIZATION -> <<"C", "o", "n", "d", "i", "t", "i", "o", "n", "V", "i", "r", "t", "u", "a", "l", "i", "z", "a", "t", "i", "o", "n">>
      [] type = CONDITION_HOST -> <<"C", "o", "n", "d", "i", "t", "i", "o", "n", "H", "o", "s", "t">>
      [] type = CONDITION_KERNEL_COMMAND_LINE -> <<"C", "o", "n", "d", "i", "t", "i", "o", "n", "K", "e", "r", "n", "e", "l", "C", "o", "m", "m", "a", "n", "d", "L", "i", "n", "e">>
      [] type = CONDITION_KERNEL_VERSION -> <<"C", "o", "n", "d", "i", "t", "i", "o", "n", "K", "e", "r", "n", "e", "l", "V", "e", "r", "s", "i", "o", "n">>
      [] type = CONDITION_CREDENTIAL -> <<"C", "o", "n", "d", "i", "t", "i", "o", "n", "C", "r", "e", "d", "e", "n", "t", "i", "a", "l">>
      [] type = CONDITION_SECURITY -> <<"C", "o", "n", "d", "i", "t", "i", "o", "n", "S", "e", "c", "u", "r", "i", "t", "y">>
      [] type = CONDITION_CAPABILITY -> <<"C", "o", "n", "d", "i", "t", "i", "o", "n", "C", "a", "p", "a", "b", "i", "l", "i", "t", "y">>
      [] type = CONDITION_AC_POWER -> <<"C", "o", "n", "d", "i", "t", "i", "o", "n", "A", "C", "P", "o", "w", "e", "r">>
      [] type = CONDITION_NEEDS_UPDATE -> <<"C", "o", "n", "d", "i", "t", "i", "o", "n", "N", "e", "e", "d", "s", "U", "p", "d", "a", "t", "e">>
      [] type = CONDITION_FIRST_BOOT -> <<"C", "o", "n", "d", "i", "t", "i", "o", "n", "F", "i", "r", "s", "t", "B", "o", "o", "t">>
      [] type = CONDITION_PATH_EXISTS -> <<"C", "o", "n", "d", "i", "t", "i", "o", "n", "P", "a", "t", "h", "E", "x", "i", "s", "t", "s">>
      [] type = CONDITION_PATH_EXISTS_GLOB -> <<"C", "o", "n", "d", "i", "t", "i", "o", "n", "P", "a", "t", "h", "E", "x", "i", "s", "t", "s", "G", "l", "o", "b">>
      [] type = CONDITION_PATH_IS_DIRECTORY -> <<"C", "o", "n", "d", "i", "t", "i", "o", "n", "P", "a", "t", "h", "I", "s", "D", "i", "r", "e", "c", "t", "o", "r", "y">>
      [] type = CONDITION_PATH_IS_SYMBOLIC_LINK -> <<"C", "o", "n", "d", "i", "t", "i", "o", "n", "P", "a", "t", "h", "I", "s", "S", "y", "m", "b", "o", "l", "i", "c", "L", "i", "n", "k">>
      [] type = CONDITION_PATH_IS_MOUNT_POINT -> <<"C", "o", "n", "d", "i", "t", "i", "o", "n", "P", "a", "t", "h", "I", "s", "M", "o", "u", "n", "t", "P", "o", "i", "n", "t">>
      [] type = CONDITION_PATH_IS_READ_WRITE -> <<"C", "o", "n", "d", "i", "t", "i", "o", "n", "P", "a", "t", "h", "I", "s", "R", "e", "a", "d", "W", "r", "i", "t", "e">>
      [] type = CONDITION_PATH_IS_ENCRYPTED -> <<"C", "o", "n", "d", "i", "t", "i", "o", "n", "P", "a", "t", "h", "I", "s", "E", "n", "c", "r", "y", "p", "t", "e", "d">>
      [] type = CONDITION_DIRECTORY_NOT_EMPTY -> <<"C", "o", "n", "d", "i", "t", "i", "o", "n", "D", "i", "r", "e", "c", "t", "o", "r", "y", "N", "o", "t", "E", "m", "p", "t", "y">>
      [] type = CONDITION_FILE_NOT_EMPTY -> <<"C", "o", "n", "d", "i", "t", "i", "o", "n", "F", "i", "l", "e", "N", "o", "t", "E", "m", "p", "t", "y">>
      [] type = CONDITION_FILE_IS_EXECUTABLE -> <<"C", "o", "n", "d", "i", "t", "i", "o", "n", "F", "i", "l", "e", "I", "s", "E", "x", "e", "c", "u", "t", "a", "b", "l", "e">>
      [] type = CONDITION_USER -> <<"C", "o", "n", "d", "i", "t", "i", "o", "n", "U", "s", "e", "r">>
      [] type = CONDITION_GROUP -> <<"C", "o", "n", "d", "i", "t", "i", "o", "n", "G", "r", "o", "u", "p">>
      [] type = CONDITION_CONTROL_GROUP_CONTROLLER -> <<"C", "o", "n", "d", "i", "t", "i", "o", "n", "C", "o", "n", "t", "r", "o", "l", "G", "r", "o", "u", "p", "C", "o", "n", "t", "r", "o", "l", "l", "e", "r">>
      [] type = CONDITION_CPUS -> <<"C", "o", "n", "d", "i", "t", "i", "o", "n", "C", "P", "U", "s">>
      [] type = CONDITION_MEMORY -> <<"C", "o", "n", "d", "i", "t", "i", "o", "n", "M", "e", "m", "o", "r", "y">>
      [] type = CONDITION_ENVIRONMENT -> <<"C", "o", "n", "d", "i", "t", "i", "o", "n", "E", "n", "v", "i", "r", "o", "n", "m", "e", "n", "t">>
      [] type = CONDITION_CPU_FEATURE -> <<"C", "o", "n", "d", "i", "t", "i", "o", "n", "C", "P", "U", "F", "e", "a", "t", "u", "r", "e">>
      [] type = CONDITION_OS_RELEASE -> <<"C", "o", "n", "d", "i", "t", "i", "o", "n", "O", "S", "R", "e", "l", "e", "a", "s", "e">>
      [] type = CONDITION_MEMORY_PRESSURE -> <<"C", "o", "n", "d", "i", "t", "i", "o", "n", "M", "e", "m", "o", "r", "y", "P", "r", "e", "s", "s", "u", "r", "e">>
      [] type = CONDITION_CPU_PRESSURE -> <<"C", "o", "n", "d", "i", "t", "i", "o", "n", "C", "P", "U", "P", "r", "e", "s", "s", "u", "r", "e">>
      [] type = CONDITION_IO_PRESSURE -> <<"C", "o", "n", "d", "i", "t", "i", "o", "n", "I", "O", "P", "r", "e", "s", "s", "u", "r", "e">>
      [] OTHER -> NULL

\* The table of the Assert flavour as a copy of the Condition one.
assert_type_table_copied(type) == condition_type_table(type)

\* assert_type_table[type], NULL for no entry.
assert_type_table(type) ==
    CASE
         type = CONDITION_ARCHITECTURE -> <<"A", "s", "s", "e", "r", "t", "A", "r", "c", "h", "i", "t", "e", "c", "t", "u", "r", "e">>
      [] type = CONDITION_FIRMWARE -> <<"A", "s", "s", "e", "r", "t", "F", "i", "r", "m", "w", "a", "r", "e">>
      [] type = CONDITION_VIRTUALIZATION -> <<"A", "s", "s", "e", "r", "t", "V", "i", "r", "t", "u", "a", "l", "i", "z", "a", "t", "i", "o", "n">>
      [] type = CONDITION_HOST -> <<"A", "s", "s", "e", "r", "t", "H", "o", "s", "t">>
      [] type = CONDITION_KERNEL_COMMAND_LINE -> <<"A", "s", "s", "e", "r", "t", "K", "e", "r", "n", "e", "l", "C", "o", "m", "m", "a", "n", "d", "L", "i", "n", "e">>
      [] type = CONDITION_KERNEL_VERSION -> <<"A", "s", "s", "e", "r", "t", "K", "e", "r", "n", "e", "l", "V", "e", "r", "s", "i", "o", "n">>
      [] type = CONDITION_CREDENTIAL -> <<"A", "s", "s", "e", "r", "t", "C", "r", "e", "d", "e", "n", "t", "i", "a", "l">>
      [] type = CONDITION_SECURITY -> <<"A", "s", "s", "e", "r", "t", "S", "e", "c", "u", "r", "i", "t", "y">>
      [] type = CONDITION_CAPABILITY -> <<"A", "s", "s", "e", "r", "t", "C", "a", "p", "a", "b", "i", "l", "i", "t", "y">>
      [] type = CONDITION_AC_POWER -> <<"A", "s", "s", "e", "r", "t", "A", "C", "P", "o", "w", "e", "r">>
      [] type = CONDITION_NEEDS_UPDATE -> <<"A", "s", "s", "e", "r", "t", "N", "e", "e", "d", "s", "U", "p", "d", "a", "t", "e">>
      [] type = CONDITION_FIRST_BOOT -> <<"A", "s", "s", "e", "r", "t", "F", "i", "r", "s", "t", "B", "o", "o", "t">>
      [] type = CONDITION_PATH_EXISTS -> <<"A", "s", "s", "e", "r", "t", "P", "a", "t", "h", "E", "x", "i", "s", "t", "s">>
      [] type = CONDITION_PATH_EXISTS_GLOB -> <<"A", "s", "s", "e", "r", "t", "P", "a", "t", "h", "E", "x", "i", "s", "t", "s", "G", "l", "o", "b">>
      [] type = CONDITION_PATH_IS_DIRECTORY -> <<"A", "s", "s", "e", "r", "t", "P", "a", "t", "h", "I", "s", "D", "i", "r", "e", "c", "t", "o", "r", "y">>
      [] type = CONDITION_PATH_IS_SYMBOLIC_LINK -> <<"A", "s", "s", "e", "r", "t", "P", "a", "t", "h", "I", "s", "S", "y", "m", "b", "o", "l", "i", "c", "L", "i", "n", "k">>
      [] type = CONDITION_PATH_IS_MOUNT_POINT -> <<"A", "s", "s", "e", "r", "t", "P", "a", "t", "h", "I", "s", "M", "o", "u", "n", "t", "P", "o", "i", "n", "t">>
      [] type = CONDITION_PATH_IS_READ_WRITE -> <<"A", "s", "s", "e", "r", "t", "P", "a", "t", "h", "I", "s", "R", "e", "a", "d", "W", "r", "i", "t", "e">>
      [] type = CONDITION_PATH_IS_ENCRYPTED -> <<"A", "s", "s", "e", "r", "t", "P", "a", "t", "h", "I", "s", "E", "n", "c", "r", "y", "p", "t", "e", "d">>
      [] type = CONDITION_DIRECTORY_NOT_EMPTY -> <<"A", "s", "s", "e", "r", "t", "D", "i", "r", "e", "c", "t", "o", "r", "y", "N", "o", "t", "E", "m", "p", "t", "y">>
      [] type = CONDITION_FILE_NOT_EMPTY -> <<"A", "s", "s", "e", "r", "t", "F", "i", "l", "e", "N", "o", "t", "E", "m", "p", "t", "y">>
      [] type = CONDITION_FILE_IS_EXECUTABLE -> <<"A", "s", "s", "e", "r", "t", "F", "i", "l", "e", "I", "s", "E", "x", "e", "c", "u", "t", "a", "b", "l", "e">>
      [] type = CONDITION_USER -> <<"A", "s", "s", "e", "r", "t", "U", "s", "e", "r">>
      [] type = CONDITION_GROUP -> <<"A", "s", "s", "e", "r", "t", "G", "r", "o", "u", "p">>
      [] type = CONDITION_CONTROL_GROUP_CONTROLLER -> <<"A", "s", "s", "e", "r", "t", "C", "o", "n", "t", "r", "o", "l", "G", "r", "o", "u", "p", "C", "o", "n", "t", "r", "o", "l", "l", "e", "r">>
      [] type = CONDITION_CPUS -> <<"A", "s", "s", "e", "r", "t", "C", "P", "U", "s">>
      [] type = CONDITION_MEMORY -> <<"A", "s", "s", "e", "r", "t", "M", "e", "m", "o", "r", "y">>
      [] type = CONDITION_ENVIRONMENT -> <<"A", "s", "s", "e", "r", "t", "E", "n", "v", "i", "r", "o", "n", "m", "e", "n", "t">>
      [] type = CONDITION_CPU_FEATURE -> <<"A", "s", "s", "e", "r", "t", "C", "P", "U", "F", "e", "a", "t", "u", "r", "e">>
      [] type = CONDITION_OS_RELEASE -> <<"A", "s", "s", "e", "r", "t", "O", "S", "R", "e", "l", "e", "a", "s", "e">>
      [] type = CONDITION_MEMORY_PRESSURE -> <<"A", "s", "s", "e", "r", "t", "M", "e", "m", "o", "r", "y", "P", "r", "e", "s", "s", "u", "r", "e">>
      [] type = CONDITION_CPU_PRESSURE -> <<"A", "s", "s", "e", "r", "t", "C", "P", "U", "P", "r", "e", "s", "s", "u", "r", "e">>
      [] type = CONDITION_IO_PRESSURE -> <<"A", "s", "s", "e", "r", "t", "I", "O", "P", "r", "e", "s", "s", "u", "r", "e">>
      [] OTHER -> NULL

\* DEFINE_STRING_TABLE_LOOKUP: the to_string functions.
condition_type_to_string(type) == condition_type_table(type)

assert_type_to_string(type) == assert_type_table(type)

(***************************************************************************)
(* condition_test_memory and condition_test_cpus                           *)
(***************************************************************************)
physical_memory(h) == h.physical_memory

cpus_in_affinity_mask(h) == h.cpus_in_affinity_mask

\* safe_atou(p, &k) on a string of decimal digits: [r, value].
safe_atou(p) == safe_atou64(p)

\* parse_size(p, 1024, &k) on a decimal number with an optional suffix B, K
\* or M: [r, value].
parse_size(p, base) ==
    LET digits == take_while_digit(p)
        suffix == Drop(p, Len(digits))
    IN  IF digits = <<>> THEN [r |-> -EINVAL, value |-> 0]
        ELSE IF suffix \in {<<>>, <<"B">>} THEN [r |-> 0, value |-> decimal_value(digits, 0)]
        ELSE IF suffix = <<"K">> THEN [r |-> 0, value |-> decimal_value(digits, 0) * base]
        ELSE IF suffix = <<"M">>
        THEN [r |-> 0, value |-> decimal_value(digits, 0) * base * base]
        ELSE [r |-> -EINVAL, value |-> 0]

\* order < 0: default to >= check, if nothing is specified.
order_or_default(order) == IF order < 0 THEN ORDER_GREATER_OR_EQUAL ELSE order

\* Lines 381-386, k being what parse_size returned.
memory_compare(m, order, k) ==
    IF k.r < 0 THEN k.r ELSE BoolToInt(test_order(CMP(m, k.value), order))

\* Lines 377-386, o being what parse_order returned.
memory_order(m, o) == memory_compare(m, order_or_default(o.order), parse_size(o.s, 1024))

condition_test_memory(c, h) ==
    [r |-> memory_order(physical_memory(h), parse_order(c.parameter, FALSE)),
     parameter |-> c.parameter]

\* Lines 407-411, k being what safe_atou returned.
cpus_compare(n, order, k) ==
    IF k.r < 0 THEN k.r ELSE BoolToInt(test_order(CMP(n, k.value), order))

\* Lines 403-411, o being what parse_order returned.
cpus_order(n, o) == cpus_compare(n, order_or_default(o.order), safe_atou(o.s))

\* Lines 399-411, n being what cpus_in_affinity_mask returned.
cpus(n, parameter) == IF n < 0 THEN n ELSE cpus_order(n, parse_order(parameter, FALSE))

condition_test_cpus(c, h) ==
    [r |-> cpus(cpus_in_affinity_mask(h), c.parameter), parameter |-> c.parameter]

(***************************************************************************)
(* The other path predicates (lines 953-990 and 1013-1060).  Each probe is *)
(* a host fact by path; stat gives [r, reg, size, exec]: the return value, *)
(* S_ISREG(st_mode), st_size and st_mode & 0111.                           *)
(***************************************************************************)
access(h, path) == h.access[path]
glob_exists(h, path) == h.glob_exists[path]
is_dir(h, path) == h.is_dir[path]
is_symlink(h, path) == h.is_symlink[path]
path_is_mount_point(h, path) == h.path_is_mount_point[path]
path_is_encrypted(h, path) == h.path_is_encrypted[path]
dir_is_empty(h, path) == h.dir_is_empty[path]
stat(h, path) == h.stat[path]

condition_test_path_exists(c, h) ==
    [r |-> BoolToInt(access(h, c.parameter) >= 0), parameter |-> c.parameter]

condition_test_path_exists_glob(c, h) ==
    [r |-> BoolToInt(glob_exists(h, c.parameter) > 0), parameter |-> c.parameter]

condition_test_path_is_directory(c, h) ==
    [r |-> BoolToInt(is_dir(h, c.parameter) > 0), parameter |-> c.parameter]

condition_test_path_is_symbolic_link(c, h) ==
    [r |-> BoolToInt(is_symlink(h, c.parameter) > 0), parameter |-> c.parameter]

condition_test_path_is_mount_point(c, h) ==
    [r |-> BoolToInt(path_is_mount_point(h, c.parameter) > 0), parameter |-> c.parameter]

\* A failure other than ENOENT is logged at debug level; the result is the same.
condition_test_path_is_encrypted(c, h) ==
    [r |-> BoolToInt(path_is_encrypted(h, c.parameter) > 0), parameter |-> c.parameter]

\* The same with ENOENT as the only exception.
directory_not_empty_result_enoent_only(r) == BoolToInt(r <= 0 /\ r # -ENOENT)

directory_not_empty_result(r) == BoolToInt(r <= 0 /\ r \notin {-ENOENT, -ENOTDIR})

condition_test_directory_not_empty(c, h) ==
    [r |-> directory_not_empty_result(dir_is_empty(h, c.parameter)),
     parameter |-> c.parameter]

file_not_empty_result(st) == BoolToInt(st.r >= 0 /\ st.reg /\ st.size > 0)

condition_test_file_not_empty(c, h) ==
    [r |-> file_not_empty_result(stat(h, c.parameter)), parameter |-> c.parameter]

file_is_executable_result(st) == BoolToInt(st.r >= 0 /\ st.reg /\ st.exec # 0)

condition_test_file_is_executable(c, h) ==
    [r |-> file_is_executable_result(stat(h, c.parameter)), parameter |-> c.parameter]

(***************************************************************************)
(* condition_test: the dispatch table and the folding of negate.           *)
(***************************************************************************)
ConditionTypes == {CONDITION_KERNEL_VERSION, CONDITION_NEEDS_UPDATE,
                   CONDITION_PATH_IS_READ_WRITE, CONDITION_CPU_FEATURE,
                   CONDITION_MEMORY_PRESSURE, CONDITION_CPU_PRESSURE,
                   CONDITION_IO_PRESSURE, CONDITION_CREDENTIAL, CONDITION_SECURITY,
                   CONDITION_AC_POWER, CONDITION_ARCHITECTURE, CONDITION_FIRST_BOOT,
                   CONDITION_FIRMWARE, CONDITION_OS_RELEASE,
                   CONDITION_CONTROL_GROUP_CONTROLLER, CONDITION_KERNEL_COMMAND_LINE,
                   CONDITION_ENVIRONMENT, CONDITION_PATH_EXISTS,
                   CONDITION_PATH_EXISTS_GLOB, CONDITION_PATH_IS_DIRECTORY,
                   CONDITION_PATH_IS_SYMBOLIC_LINK, CONDITION_PATH_IS_MOUNT_POINT,
                   CONDITION_PATH_IS_ENCRYPTED, CONDITION_DIRECTORY_NOT_EMPTY,
                   CONDITION_FILE_NOT_EMPTY, CONDITION_FILE_IS_EXECUTABLE,
                   CONDITION_CPUS, CONDITION_MEMORY}

condition_tests(c, h) ==
    CASE c.type = CONDITION_KERNEL_VERSION      -> condition_test_kernel_version(c, h)
      [] c.type = CONDITION_NEEDS_UPDATE        -> condition_test_needs_update(c, h)
      [] c.type = CONDITION_PATH_IS_READ_WRITE  -> condition_test_path_is_read_write(c, h)
      [] c.type = CONDITION_CPU_FEATURE         -> condition_test_cpufeature(c, h)
      [] c.type = CONDITION_MEMORY_PRESSURE     -> condition_test_psi(c, h)
      [] c.type = CONDITION_CPU_PRESSURE        -> condition_test_psi(c, h)
      [] c.type = CONDITION_IO_PRESSURE         -> condition_test_psi(c, h)
      [] c.type = CONDITION_CREDENTIAL          -> condition_test_credential(c, h)
      [] c.type = CONDITION_SECURITY            -> condition_test_security(c, h)
      [] c.type = CONDITION_AC_POWER            -> condition_test_ac_power(c, h)
      [] c.type = CONDITION_ARCHITECTURE        -> condition_test_architecture(c, h)
      [] c.type = CONDITION_FIRST_BOOT          -> condition_test_first_boot(c, h)
      [] c.type = CONDITION_FIRMWARE            -> condition_test_firmware(c, h)
      [] c.type = CONDITION_OS_RELEASE          -> condition_test_osrelease(c, h)
      [] c.type = CONDITION_CONTROL_GROUP_CONTROLLER
                                                -> condition_test_control_group_controller(c, h)
      [] c.type = CONDITION_KERNEL_COMMAND_LINE -> condition_test_kernel_command_line(c, h)
      [] c.type = CONDITION_ENVIRONMENT         -> condition_test_environment(c, h)
      [] c.type = CONDITION_PATH_EXISTS         -> condition_test_path_exists(c, h)
      [] c.type = CONDITION_PATH_EXISTS_GLOB    -> condition_test_path_exists_glob(c, h)
      [] c.type = CONDITION_PATH_IS_DIRECTORY   -> condition_test_path_is_directory(c, h)
      [] c.type = CONDITION_PATH_IS_SYMBOLIC_LINK
                                                -> condition_test_path_is_symbolic_link(c, h)
      [] c.type = CONDITION_PATH_IS_MOUNT_POINT -> condition_test_path_is_mount_point(c, h)
      [] c.type = CONDITION_PATH_IS_ENCRYPTED   -> condition_test_path_is_encrypted(c, h)
      [] c.type = CONDITION_DIRECTORY_NOT_EMPTY -> condition_test_directory_not_empty(c, h)
      [] c.type = CONDITION_FILE_NOT_EMPTY      -> condition_test_file_not_empty(c, h)
      [] c.type = CONDITION_FILE_IS_EXECUTABLE  -> condition_test_file_is_executable(c, h)
      [] c.type = CONDITION_CPUS                -> condition_test_cpus(c, h)
      [] c.type = CONDITION_MEMORY              -> condition_test_memory(c, h)

\* The boolean with negate ignored.
fold_negate_ignored(r, negate) == r > 0

\* The boolean b of condition_test for an evaluator outcome r >= 0.
fold_negate(r, negate) == (r > 0) = ~negate

\* negate applied to an error as well: an error becomes the boolean too.
condition_result_negating_errors(r, negate) ==
    IF fold_negate(r, negate) THEN CONDITION_SUCCEEDED ELSE CONDITION_FAILED

\* c->result after an evaluator outcome r.
condition_result(r, negate) ==
    IF r < 0 THEN CONDITION_ERROR
    ELSE IF fold_negate(r, negate) THEN CONDITION_SUCCEEDED ELSE CONDITION_FAILED

\* The part of condition_test after the evaluator returned e (lines 1252-1259).
condition_test_fold(c, e) ==
    [ret |-> IF e.r < 0 THEN e.r ELSE BoolToInt(fold_negate(e.r, c.negate)),
     c   |-> [c EXCEPT !.parameter = e.parameter,
                       !.result = condition_result(e.r, c.negate)]]

\* condition_test(c, env): [ret, c], c being the record after the call.
condition_test(c, h) == condition_test_fold(c, condition_tests(c, h))

(***************************************************************************)
(* condition_test_list: the loop from list position i on.  triggered is    *)
(* the local of that name, evaluated the positions tested so far.          *)
(***************************************************************************)
\* The update that keeps only the last trigger's outcome.
next_triggered_last(triggered, r) == BoolToInt(r > 0)

\* The update that counts every nonzero outcome, an error included, as triggered.
next_triggered_nonzero(triggered, r) == IF triggered <= 0 THEN BoolToInt(r # 0) ELSE triggered

\* The update of triggered at a trigger condition whose test returned r.
next_triggered(triggered, r) == IF triggered <= 0 THEN BoolToInt(r > 0) ELSE triggered

\* The early return taken at a trigger condition too.
stops_list_any(c, r) == r <= 0

\* The early return at a regular condition whose test returned r.
stops_list(c, r) == ~c.trigger /\ r <= 0

\* The level that treats a false outcome like an error.
log_level_nonpositive(r) == IF r <= 0 THEN LOG_WARNING ELSE LOG_DEBUG

\* The level of the logger call for a condition whose test returned r.
log_level(r) == IF r < 0 THEN LOG_WARNING ELSE LOG_DEBUG

\* The logger call of lines 1287-1302 for position i: level and error.
log_call(i, r) == [idx |-> i, level |-> log_level(r), error |-> IF r < 0 THEN r ELSE 0]

\* if (logger): the calls made so far, logger being whether one was supplied.
log_condition(logger, logged, i, r) ==
    IF logger THEN Append(logged, log_call(i, r)) ELSE logged

RECURSIVE condition_test_list_from(_, _, _, _, _, _, _)

\* The loop body at position i after condition_test returned t and the logger
\* was called (lines 1285-1307), logged being the calls including that one.
condition_test_list_body(cs, h, i, triggered, evaluated, logger, logged, t) ==
    IF stops_list(cs[i], t.ret)
    THEN [verdict |-> FALSE, conds |-> [cs EXCEPT ![i] = t.c],
          evaluated |-> Append(evaluated, i), logged |-> logged]
    ELSE condition_test_list_from(
             [cs EXCEPT ![i] = t.c], h, i + 1,
             IF cs[i].trigger THEN next_triggered(triggered, t.ret) ELSE triggered,
             Append(evaluated, i), logger, logged)

\* Lines 1283-1302: the test of position i and its logger call.
condition_test_list_logging(cs, h, i, triggered, evaluated, logger, logged, t) ==
    condition_test_list_body(cs, h, i, triggered, evaluated, logger,
                             log_condition(logger, logged, i, t.ret), t)

condition_test_list_from(cs, h, i, triggered, evaluated, logger, logged) ==
    IF i > Len(cs)
    THEN [verdict |-> triggered # 0, conds |-> cs, evaluated |-> evaluated,
          logged |-> logged]
    ELSE condition_test_list_logging(cs, h, i, triggered, evaluated, logger, logged,
                                     condition_test(cs[i], h))

\* condition_test_list(first, env, to_string, logger, userdata), logger being
\* whether a logger (and with it to_string) was supplied.
condition_test_list(first, h, logger) ==
    IF first = <<>>
    THEN [verdict |-> TRUE, conds |-> first, evaluated |-> <<>>, logged |-> <<>>]
    ELSE condition_test_list_from(first, h, 1, -1, <<>>, logger, <<>>)

(***************************************************************************)
(* The inputs of the model: parameters, hosts.                             *)
(***************************************************************************)
Strings(alphabet, n) == UNION {[1..k -> alphabet] : k \in 0..n}

PathA == <<"/", "a">>
PathRelative == <<"a">>
Paths == {PathA}

\* A host on which nothing is special: a writable /a, no kernel command
\* line override, not in an initrd, /usr/ and /a/.updated of the same age.
DefaultHost ==
    [release              |-> <<"6", ".", "1", ".", "0">>,
     read_only_fs         |-> [p \in Paths |-> 0],
     cpu_flags            |-> {},
     cmdline_needs_update |-> [r |-> 0, b |-> FALSE],
     in_initrd            |-> FALSE,
     updated              |-> [r |-> 0, sec |-> 1, nsec |-> 0],
     usr                  |-> [r |-> 0, sec |-> 1, nsec |-> 0],
     timestamp            |-> [r |-> 0, str |-> NULL],
     pressure_supported   |-> TRUE,
     cg_all_unified       |-> 1,
     cg_mask_supported    |-> [r |-> 0, mask |-> {CGROUP_MASK_CPU, CGROUP_MASK_IO,
                                                     CGROUP_MASK_MEMORY}],
     root_scope           |-> [r |-> 0, path |-> <<>>],
     pressure             |-> <<>>,
     on_ac_power          |-> 1,
     cmdline_first_boot   |-> [r |-> 0, b |-> FALSE],
     first_boot_access    |-> -ENOENT,
     security             |-> {},
     architecture         |-> [r |-> 0, a |-> "x86-64"],
     native_architecture  |-> "x86-64",
     credentials_dir      |-> [r |-> -ENXIO, names |-> {}, unreadable |-> {}],
     encrypted_credentials_dir |-> [r |-> -ENXIO, names |-> {}, unreadable |-> {}],
     device_tree_access   |-> -ENOENT,
     efi_boot             |-> FALSE,
     dtcompat             |-> [r |-> -ENOENT, data |-> <<>>],
     smbios               |-> <<>>,
     os_release           |-> [r |-> -ENOENT, fields |-> <<>>],
     proc_cmdline         |-> [r |-> 0, line |-> <<>>],
     env                  |-> <<>>,
     physical_memory      |-> 2048,
     cpus_in_affinity_mask |-> 4,
     access               |-> [p \in Paths |-> 0],
     glob_exists          |-> [p \in Paths |-> 1],
     is_dir               |-> [p \in Paths |-> 1],
     is_symlink           |-> [p \in Paths |-> 0],
     path_is_mount_point  |-> [p \in Paths |-> 0],
     path_is_encrypted    |-> [p \in Paths |-> 0],
     dir_is_empty         |-> [p \in Paths |-> 0],
     stat                 |-> [p \in Paths |-> [r |-> 0, reg |-> FALSE, size |-> 0,
                                                exec |-> 73]]]

ReadOnlyProbes == {1, 0, -ENOENT, -EIO}

FlagAVX == <<"a", "v", "x">>

\* No call has been observed.
NoCall == [op |-> "none", idx |-> 0, ret |-> 0, evaluated |-> <<>>, before |-> <<>>,
           logger |-> FALSE, logged |-> <<>>]

\* A lookup in one of the three tables has not run yet.
LookupCall(table, type) == [pc |-> "lookup", table |-> table, type |-> type, found |-> NULL]

\* The scanner is not running.
ScanIdle == [pc |-> "idle", s |-> <<>>, allow_fnmatch |-> FALSE,
             order |-> ORDER_INVALID, rest |-> <<>>]

(***************************************************************************)
(* Actions.                                                                *)
(***************************************************************************)
\* The loader appends a new condition to the list.
NewCondition(pool, maxlen) ==
    /\ Len(conds) < maxlen
    /\ \E e \in pool, trigger \in BOOLEAN, negate \in BOOLEAN :
           conds' = Append(conds, condition_new(e[1], e[2], trigger, negate))
    /\ last' = NoCall
    /\ UNCHANGED <<host, po>>

\* condition_new runs out of memory (new or strdup fails): it returns NULL
\* and the list stays as it was.
NewConditionNoMemory(maxlen) ==
    /\ Len(conds) < maxlen
    /\ last.op # "condition_new"
    /\ last' = [NoCall EXCEPT !.op = "condition_new"]
    /\ UNCHANGED <<conds, host, po>>

\* A caller frees the conditions of one kind, or all of them.
FreeListType(types) ==
    /\ \E type \in types \cup {CONDITION_TYPE_INVALID} :
           /\ conds' = condition_free_list_type(conds, type)
           /\ last' = [op |-> "condition_free_list_type", idx |-> 0, ret |-> 0,
                       evaluated |-> <<>>, before |-> conds, type |-> type,
                       logger |-> FALSE, logged |-> <<>>]
    /\ UNCHANGED <<host, po>>

\* A caller evaluates one condition of the list with condition_test.
\* The state after condition_test on position i returned t.
ConditionTested(i, t) ==
    /\ conds' = [conds EXCEPT ![i] = t.c]
    /\ last' = [op |-> "condition_test", idx |-> i, ret |-> t.ret,
                evaluated |-> <<i>>, before |-> conds, logger |-> FALSE, logged |-> <<>>]

TestCondition ==
    /\ \E i \in DOMAIN conds : ConditionTested(i, condition_test(conds[i], host))
    /\ UNCHANGED <<host, po>>

\* A caller evaluates the whole list with condition_test_list.
\* The state after condition_test_list returned t.
ListTested(t, logger) ==
    /\ conds' = t.conds
    /\ last' = [op |-> "condition_test_list", idx |-> 0, ret |-> BoolToInt(t.verdict),
                evaluated |-> t.evaluated, before |-> conds,
                logger |-> logger, logged |-> t.logged]

TestList ==
    /\ ListTested(condition_test_list(conds, host, FALSE), FALSE)
    /\ UNCHANGED <<host, po>>

\* A caller evaluates the whole list and supplies a logger.
TestListLogged ==
    /\ ListTested(condition_test_list(conds, host, TRUE), TRUE)
    /\ UNCHANGED <<host, po>>

\* The host changes between two evaluations: a file system is remounted
\* read-only or read-write.
Remount ==
    /\ \E p \in Paths, r \in {0, 1} :
           /\ host.read_only_fs[p] # r
           /\ host' = [host EXCEPT !.read_only_fs[p] = r]
    /\ last' = NoCall
    /\ UNCHANGED <<conds, po>>

\* parse_order(&s, allow_fnmatch) runs on the scanner's input.
ParseOrder ==
    /\ po.pc = "call"
    /\ LET o == parse_order(po.s, po.allow_fnmatch) IN
       po' = [po EXCEPT !.pc = "done", !.order = o.order, !.rest = o.s]
    /\ UNCHANGED <<conds, host, last>>

\* A caller looks a kind up in the table po.table.
Lookup ==
    /\ po.pc = "lookup"
    /\ po' = [po EXCEPT !.pc = "found",
                        !.found = CASE po.table = "condition_tests"
                                         -> condition_tests_table(po.type)
                                    [] po.table = "condition_type"
                                         -> condition_type_to_string(po.type)
                                    [] po.table = "assert_type"
                                         -> assert_type_to_string(po.type)]
    /\ UNCHANGED <<conds, host, last>>

(***************************************************************************)
(* Spec: the list composer over a list of up to MaxLen conditions.         *)
(***************************************************************************)
ListPool == {<<CONDITION_KERNEL_VERSION, <<"<">>>>,
             <<CONDITION_PATH_IS_READ_WRITE, PathA>>}

ListHosts ==
    {[DefaultHost EXCEPT !.read_only_fs = [p \in Paths |-> r]] : r \in {0, 1}}

Init ==
    /\ conds = <<>>
    /\ host \in ListHosts
    /\ last = NoCall
    /\ po = ScanIdle

Next ==
    \/ NewCondition(ListPool, MaxLen)
    \/ TestCondition
    \/ TestList
    \/ Remount

Spec == Init /\ [][Next]_vars

(***************************************************************************)
(* SpecOrder: parse_order on every input of up to MaxScan characters.      *)
(***************************************************************************)
ScanAlphabet == {"<", ">", "=", "!", "$", "x"}

InitOrder ==
    /\ conds = <<>>
    /\ host = DefaultHost
    /\ last = NoCall
    /\ \E s \in Strings(ScanAlphabet, MaxScan), allow \in BOOLEAN :
           po = [pc |-> "call", s |-> s, allow_fnmatch |-> allow,
                 order |-> ORDER_INVALID, rest |-> s]

NextOrder == ParseOrder

SpecOrder == InitOrder /\ [][NextOrder]_vars

(***************************************************************************)
(* SpecEval: one condition of a path or CPU kind, evaluated on every host  *)
(* of EvalHosts.                                                           *)
(***************************************************************************)
EvalPool == {<<CONDITION_PATH_IS_READ_WRITE, PathA>>,
             <<CONDITION_CPU_FEATURE, <<"A", "V", "X">>>>,
             <<CONDITION_CPU_FEATURE, FlagAVX>>}

EvalHosts ==
    {[DefaultHost EXCEPT !.read_only_fs = [p \in Paths |-> r], !.cpu_flags = f] :
        r \in ReadOnlyProbes, f \in {{}, {FlagAVX}}}

InitEval ==
    /\ conds = <<>>
    /\ host \in EvalHosts
    /\ last = NoCall
    /\ po = ScanIdle

NextEval ==
    \/ NewCondition(EvalPool, 1)
    \/ TestCondition
    \/ TestList
    \/ Remount

SpecEval == InitEval /\ [][NextEval]_vars

(***************************************************************************)
(* SpecKernelVersion: one KernelVersion condition on hosts that differ in  *)
(* the kernel release.                                                     *)
(***************************************************************************)
Release_5_15_generic == <<"5", ".", "1", "5", ".", "0", "-", "4", "2", "-",
                          "g", "e", "n", "e", "r", "i", "c">>
Release_6_1 == <<"6", ".", "1", ".", "0">>
Release_5_4 == <<"5", ".", "4", ".", "0">>
Release_6_5_generic == <<"6", ".", "5", ".", "0", "-", "g", "e", "n", "e", "r", "i", "c">>

Ge_5_10 == <<">", "=", "5", ".", "1", "0">>
Lt_6_0 == <<"<", "6", ".", "0">>
GlobGeneric == <<"*", "-", "g", "e", "n", "e", "r", "i", "c">>

\* ">= 5.10 < 6.0 *-generic"
ParamSpaced == <<">", "=", " ", "5", ".", "1", "0", " ", "<", " ", "6", ".", "0", " ">>
               \o GlobGeneric
\* ">= 5.10 <6.0 *-generic"
ParamAttached == <<">", "=", " ", "5", ".", "1", "0", " ">> \o Lt_6_0 \o <<" ">>
                 \o GlobGeneric

Join(a, b) == a \o <<" ">> \o b

\* The sub-expressions with the comparator attached to its value, and the lists made of them.
KernelVersionWords == {Ge_5_10, Lt_6_0, GlobGeneric}

KernelVersionWordLists ==
    KernelVersionWords
    \cup {Join(a, b) : a \in KernelVersionWords, b \in KernelVersionWords}
    \cup {Join(Ge_5_10, Join(Lt_6_0, GlobGeneric)), Join(GlobGeneric, Join(Lt_6_0, Ge_5_10))}

\* Bare comparators and the value that may follow one.
BareOperators == {<<"<">>, <<">", "=">>}
Value_6_0 == <<"6", ".", "0">>

\* A bare comparator alone or with the value as the next word, as the whole
\* parameter or after one sub-expression with an attached comparator or a glob.
BareParams ==
    BareOperators
    \cup {Join(op, Value_6_0) : op \in BareOperators}
    \cup {Join(w, op) : w \in KernelVersionWords, op \in BareOperators}
    \cup {Join(w, Join(op, Value_6_0)) : w \in KernelVersionWords, op \in BareOperators}

KernelVersionParams ==
    KernelVersionWordLists \cup BareParams
    \cup {ParamSpaced, ParamAttached, <<"<">>, <<"<", " ", "6", ".", "0">>,
          Join(GlobGeneric, <<">", "=">>)}

KernelVersionPool == {<<CONDITION_KERNEL_VERSION, p>> : p \in KernelVersionParams}

KernelVersionHosts ==
    {[DefaultHost EXCEPT !.release = r] :
        r \in {Release_5_15_generic, Release_6_1, Release_5_4, Release_6_5_generic}}

InitKernelVersion ==
    /\ conds = <<>>
    /\ host \in KernelVersionHosts
    /\ last = NoCall
    /\ po = ScanIdle

NextKernelVersion ==
    \/ NewCondition(KernelVersionPool, 1)
    \/ TestCondition
    \/ TestList

SpecKernelVersion == InitKernelVersion /\ [][NextKernelVersion]_vars

(***************************************************************************)
(* SpecNeedsUpdate: one NeedsUpdate condition on hosts that differ in the  *)
(* facts condition_test_needs_update reads.                                *)
(***************************************************************************)
StatTimes == {[r |-> 0, sec |-> s, nsec |-> n] : s \in {1, 2}, n \in {0, 500, 700}}

StatFailed(e) == [r |-> -e, sec |-> 0, nsec |-> 0]

TimestampFiles ==
    {[r |-> -EIO, str |-> NULL],
     [r |-> 0, str |-> NULL],
     [r |-> 0, str |-> <<"x">>],
     [r |-> 0, str |-> <<"1", "0", "0", "0", "0", "0", "0", "5", "0", "0">>],
     [r |-> 0, str |-> <<"1", "0", "0", "0", "0", "0", "0", "6", "0", "0">>]}

NeedsUpdateHosts ==
    {[DefaultHost EXCEPT !.cmdline_needs_update = o, !.in_initrd = i,
                         !.read_only_fs = [p \in Paths |-> ro],
                         !.updated = u, !.usr = v, !.timestamp = ts] :
        o \in {[r |-> -EINVAL, b |-> FALSE], [r |-> 0, b |-> FALSE],
               [r |-> 1, b |-> FALSE], [r |-> 1, b |-> TRUE]},
        i \in BOOLEAN,
        ro \in {1, 0, -ENOENT},
        u \in StatTimes \cup {StatFailed(ENOENT), StatFailed(EIO)},
        v \in StatTimes \cup {StatFailed(EIO)},
        ts \in TimestampFiles}

NeedsUpdatePool == {<<CONDITION_NEEDS_UPDATE, PathA>>, <<CONDITION_NEEDS_UPDATE, PathRelative>>}

InitNeedsUpdate ==
    /\ conds = <<>>
    /\ host \in NeedsUpdateHosts
    /\ last = NoCall
    /\ po = ScanIdle

NextNeedsUpdate ==
    \/ NewCondition(NeedsUpdatePool, 1)
    \/ TestCondition
    \/ TestList

SpecNeedsUpdate == InitNeedsUpdate /\ [][NextNeedsUpdate]_vars

(***************************************************************************)
(* SpecPsi: one pressure condition on hosts that differ in the facts       *)
(* condition_test_psi reads.                                               *)
(***************************************************************************)
Psi_5000 == <<"5", "0", "0", "0">>
Psi_15pct == <<"1", "5", "%">>
Psi_10_10sec == <<"1", "0", "/", "1", "0", "s", "e", "c">>
Psi_15pct_10sec == <<"1", "5", "%", "/", "1", "0", "s", "e", "c">>
Psi_15pct_1min == <<"1", "5", "%", "/", "1", "m", "i", "n">>
Psi_10pct_1min == <<"1", "0", "%", "/", "1", "m", "i", "n">>
Psi_15pct_5min == <<"1", "5", "%", "/", "5", "m", "i", "n">>
Psi_15pct_2min == <<"1", "5", "%", "/", "2", "m", "i", "n">>
Psi_cgroup_15pct == <<"a", ".", "s", "l", "i", "c", "e", ":", "1", "5", "%">>
Psi_cgroup_15pct_10sec == <<"a", ".", "s", "l", "i", "c", "e", ":", "1", "5", "%", "/", "1", "0", "s", "e", "c">>
Psi_cgroup_bad_slice == <<"x", ":", "1", "5", "%">>
Psi_empty == <<>>
Psi_not_a_number == <<"x">>

PsiParams == {Psi_5000, Psi_15pct, Psi_10_10sec, Psi_15pct_10sec, Psi_15pct_1min, Psi_10pct_1min, Psi_15pct_5min, Psi_15pct_2min, Psi_cgroup_15pct, Psi_cgroup_15pct_10sec, Psi_cgroup_bad_slice, Psi_empty, Psi_not_a_number}

PsiGlobalParams == {Psi_5000, Psi_15pct, Psi_10_10sec, Psi_15pct_10sec, Psi_15pct_1min,
                    Psi_10pct_1min, Psi_15pct_5min}

PsiCgroupParams == {Psi_cgroup_15pct, Psi_cgroup_15pct_10sec, Psi_cgroup_bad_slice}

PsiTypes == {CONDITION_MEMORY_PRESSURE, CONDITION_CPU_PRESSURE, CONDITION_IO_PRESSURE}

PsiPool == {<<type, p>> : type \in PsiTypes, p \in PsiParams}

\* The pressure files of the model: /proc/pressure/<type> and the file of a.slice.
PsiPaths ==
    {[root |-> <<"proc", "pressure">>, slice |-> <<>>, file |-> psi_pressure_type(type)] :
        type \in PsiTypes}
    \cup {[root |-> <<>>, slice |-> <<"a", ".", "s", "l", "i", "c", "e">>,
           file |-> psi_controller(type)] : type \in PsiTypes}

\* A line of a pressure file, the averages in hundredths.
PressureLine(avg10, avg60, avg300) ==
    [r |-> 0,
     avg10  |-> store_loadavg_fixed_point(avg10 \div 100, avg10 % 100),
     avg60  |-> store_loadavg_fixed_point(avg60 \div 100, avg60 % 100),
     avg300 |-> store_loadavg_fixed_point(avg300 \div 100, avg300 % 100)]

NoPressureLine(e) == [r |-> -e, avg10 |-> 0, avg60 |-> 0, avg300 |-> 0]

\* full: avg10=20.00 avg60=10.00 avg300=0.40; some: 10.00, 20.00, 30.00.
PressureFiles ==
    {[full |-> PressureLine(2000, 1000, 40), some |-> PressureLine(1000, 2000, 3000)],
     [full |-> NoPressureLine(ENODATA), some |-> PressureLine(1000, 2000, 3000)],
     [full |-> NoPressureLine(EIO), some |-> PressureLine(1000, 2000, 3000)]}

PsiPressures ==
    {[path \in PsiPaths |-> f] : f \in PressureFiles} \cup {[path \in {} |-> 0]}

PsiHosts ==
    {[DefaultHost EXCEPT !.pressure_supported = s, !.cg_all_unified = u,
                         !.cg_mask_supported = m, !.root_scope = rs, !.pressure = pr] :
        s \in BOOLEAN,
        u \in {1, 0, -EIO},
        m \in {[r |-> 0, mask |-> {CGROUP_MASK_CPU, CGROUP_MASK_IO, CGROUP_MASK_MEMORY}],
               [r |-> 0, mask |-> {CGROUP_MASK_CPU}],
               [r |-> -EIO, mask |-> {}]},
        rs \in {[r |-> 0, path |-> <<>>], [r |-> 0, path |-> <<SPECIAL_INIT_SCOPE>>],
                [r |-> 0, path |-> <<"user.slice">>]},
        pr \in PsiPressures}

InitPsi ==
    /\ conds = <<>>
    /\ host \in PsiHosts
    /\ last = NoCall
    /\ po = ScanIdle

NextPsi ==
    \/ NewCondition(PsiPool, 1)
    \/ TestCondition
    \/ TestList

SpecPsi == InitPsi /\ [][NextPsi]_vars

(***************************************************************************)
(* SpecSyntax: one condition of a kind whose parameter is a name, a        *)
(* boolean or a firmware expression, well-formed or not.                   *)
(***************************************************************************)
Fw_device_tree == <<"d", "e", "v", "i", "c", "e", "-", "t", "r", "e", "e">>
Fw_uefi == <<"u", "e", "f", "i">>
Fw_dtc == <<"d", "e", "v", "i", "c", "e", "-", "t", "r", "e", "e", "-", "c", "o", "m", "p", "a", "t", "i", "b", "l", "e", "(", "a", ",", "b", ")">>
Fw_dtc_open == <<"d", "e", "v", "i", "c", "e", "-", "t", "r", "e", "e", "-", "c", "o", "m", "p", "a", "t", "i", "b", "l", "e", "(", "a", ",", "b">>
Fw_smbios == <<"s", "m", "b", "i", "o", "s", "-", "f", "i", "e", "l", "d", "(", "v", "=", "x", ")">>
Fw_smbios_glob == <<"s", "m", "b", "i", "o", "s", "-", "f", "i", "e", "l", "d", "(", "v", "=", "$", "x", "*", ")">>
Fw_smbios_open == <<"s", "m", "b", "i", "o", "s", "-", "f", "i", "e", "l", "d", "(", "v", "=", "x">>
Fw_smbios_no_operator == <<"s", "m", "b", "i", "o", "s", "-", "f", "i", "e", "l", "d", "(", "v", ")">>
Fw_unknown == <<"b", "i", "o", "s">>

FirmwareParams == {Fw_device_tree, Fw_uefi, Fw_dtc, Fw_dtc_open, Fw_smbios, Fw_smbios_glob, Fw_smbios_open, Fw_smbios_no_operator, Fw_unknown}

\* The firmware expressions that do not conform to the syntax.
FirmwareMalformedDeviceTree == {Fw_dtc_open}
FirmwareMalformedSmbios == {Fw_smbios_open, Fw_smbios_no_operator}
FirmwareUnknown == {Fw_unknown}

NotABoolean == <<"x">>
BooleanParams == {<<"t", "r", "u", "e">>, <<"n", "o">>, NotABoolean}

CredentialParams == {<<"a">>, <<"b">>, <<"a", "/", "b">>, <<".", ".">>}
CredentialInvalid == {<<"a", "/", "b">>, <<".", ".">>}

SecurityParams == {<<"s", "e", "l", "i", "n", "u", "x">>, <<"t", "p", "m", "2">>, <<"x">>}
SecurityUnknown == {<<"x">>}

ArchitectureParams == {<<"n", "a", "t", "i", "v", "e">>, <<"x", "8", "6", "-", "6", "4">>, <<"a", "r", "m", "6", "4">>, <<"x">>}
ArchitectureUnknown == {<<"x">>}

SyntaxPool ==
    {<<CONDITION_FIRMWARE, p>> : p \in FirmwareParams}
    \cup {<<CONDITION_AC_POWER, p>> : p \in BooleanParams}
    \cup {<<CONDITION_FIRST_BOOT, p>> : p \in BooleanParams}
    \cup {<<CONDITION_CREDENTIAL, p>> : p \in CredentialParams}
    \cup {<<CONDITION_SECURITY, p>> : p \in SecurityParams}
    \cup {<<CONDITION_ARCHITECTURE, p>> : p \in ArchitectureParams}

\* Firmware facts: none, or a device tree compatible with a,b and c, an EFI
\* boot and the SMBIOS field v = "x1\n".
FirmwareFacts ==
    {[device_tree_access |-> -ENOENT, efi_boot |-> FALSE,
      dtcompat |-> [r |-> -ENOENT, data |-> <<>>], smbios |-> <<>>],
     [device_tree_access |-> 0, efi_boot |-> TRUE,
      dtcompat |-> [r |-> 0, data |-> <<"a", ",", "b", "NUL", "c", "NUL">>],
      smbios |-> [f \in {<<"v">>} |-> [r |-> 0, value |-> <<"x", "1", "\n">>]]],
     [device_tree_access |-> 0, efi_boot |-> FALSE,
      dtcompat |-> [r |-> 0, data |-> <<"a", ",", "b">>],
      smbios |-> [f \in {<<"v">>} |-> [r |-> 0, value |-> <<"x">>]]]}

SyntaxHosts ==
    {[DefaultHost EXCEPT !.on_ac_power = ac, !.cmdline_first_boot = o,
                         !.first_boot_access = q, !.security = s, !.architecture = a,
                         !.credentials_dir = cd,
                         !.device_tree_access = fw.device_tree_access,
                         !.efi_boot = fw.efi_boot, !.dtcompat = fw.dtcompat,
                         !.smbios = fw.smbios] :
        ac \in {1, 0},
        o \in {[r |-> 0, b |-> FALSE], [r |-> -EINVAL, b |-> FALSE],
               [r |-> 1, b |-> FALSE], [r |-> 1, b |-> TRUE]},
        q \in {0, -ENOENT, -EIO},
        s \in {{}, {"mac_selinux_use"}},
        a \in {[r |-> 0, a |-> "x86-64"], [r |-> -EIO, a |-> "invalid"]},
        cd \in {[r |-> -ENXIO, names |-> {}, unreadable |-> {}],
                [r |-> 0, names |-> {<<"a">>}, unreadable |-> {<<"b">>}]},
        fw \in FirmwareFacts}

InitSyntax ==
    /\ conds = <<>>
    /\ host \in SyntaxHosts
    /\ last = NoCall
    /\ po = ScanIdle

NextSyntax ==
    \/ NewCondition(SyntaxPool, 1)
    \/ TestCondition
    \/ TestList

SpecSyntax == InitSyntax /\ [][NextSyntax]_vars

(***************************************************************************)
(* SpecOsRelease: one OSRelease condition on hosts that differ in the      *)
(* os-release file.                                                        *)
(***************************************************************************)
Key_ID == <<"I", "D">>
Key_VERSION_ID == <<"V", "E", "R", "S", "I", "O", "N", "_", "I", "D">>

Item_VERSION_ID_eq_22_4 == <<"V", "E", "R", "S", "I", "O", "N", "_", "I", "D", "=", "2", "2", ".", "4">>
Item_VERSION_ID_eq_22_04 == <<"V", "E", "R", "S", "I", "O", "N", "_", "I", "D", "=", "2", "2", ".", "0", "4">>
Item_VERSION_ID_ne_22_4 == <<"V", "E", "R", "S", "I", "O", "N", "_", "I", "D", "!", "=", "2", "2", ".", "4">>
Item_VERSION_ID_ge_20_04 == <<"V", "E", "R", "S", "I", "O", "N", "_", "I", "D", ">", "=", "2", "0", ".", "0", "4">>
Item_VERSION_ID_lt_20_04 == <<"V", "E", "R", "S", "I", "O", "N", "_", "I", "D", "<", "2", "0", ".", "0", "4">>
Item_VERSION_ID_le_22_04 == <<"V", "E", "R", "S", "I", "O", "N", "_", "I", "D", "<", "=", "2", "2", ".", "0", "4">>
Item_VERSION_ID_gt_22_04 == <<"V", "E", "R", "S", "I", "O", "N", "_", "I", "D", ">", "2", "2", ".", "0", "4">>
Item_ID_eq_ubuntu == <<"I", "D", "=", "u", "b", "u", "n", "t", "u">>
Item_ID_eq_debian == <<"I", "D", "=", "d", "e", "b", "i", "a", "n">>
Item_ID_ne_debian == <<"I", "D", "!", "=", "d", "e", "b", "i", "a", "n">>

OsReleaseItems == {Item_VERSION_ID_eq_22_4,
                   Item_VERSION_ID_eq_22_04,
                   Item_VERSION_ID_ne_22_4,
                   Item_VERSION_ID_ge_20_04,
                   Item_VERSION_ID_lt_20_04,
                   Item_VERSION_ID_le_22_04,
                   Item_VERSION_ID_gt_22_04,
                   Item_ID_eq_ubuntu,
                   Item_ID_eq_debian,
                   Item_ID_ne_debian}

\* An item with white space after the operator, an item without operator,
\* an item whose key is no environment variable name.
OsReleaseMalformed == {<<"I", "D", "=", " ", "u", "b", "u", "n", "t", "u">>, Key_ID,
                       <<"1", "D", "=", "u", "b", "u", "n", "t", "u">>}

\* Malformed items of one word: a key that is no environment variable name,
\* no operator, a glob operator, no value after the operator.
OsReleaseMalformedWords == {<<"1", "D", "=", "u", "b", "u", "n", "t", "u">>, Key_ID,
                            <<"I", "D", "=", "$", "u", "*">>, <<"I", "D", "=">>}

\* The items of the two-item parameters: well-formed or malformed.
OsReleaseListItems ==
    {Item_ID_eq_ubuntu, Item_ID_eq_debian, Item_VERSION_ID_ge_20_04}
    \cup OsReleaseMalformedWords

OsReleaseParams ==
    OsReleaseItems
    \cup OsReleaseMalformedWords
    \cup {Join(a, b) : a \in OsReleaseListItems, b \in OsReleaseListItems}
    \cup {Join(a, b) : a \in {Item_ID_eq_ubuntu, Item_ID_eq_debian},
                       b \in {Item_VERSION_ID_ge_20_04, Item_VERSION_ID_eq_22_4}}
    \cup OsReleaseMalformed
    \cup {<<>>}

OsReleasePool == {<<CONDITION_OS_RELEASE, p>> : p \in OsReleaseParams}

\* os-release with ID and VERSION_ID, with ID alone, with neither, and no file.
OsReleaseFiles ==
    {[r |-> 0, fields |-> [k \in {Key_ID, Key_VERSION_ID} |->
                              IF k = Key_ID THEN <<"u", "b", "u", "n", "t", "u">>
                              ELSE <<"2", "2", ".", "0", "4">>]],
     [r |-> 0, fields |-> [k \in {Key_ID} |-> <<"d", "e", "b", "i", "a", "n">>]],
     [r |-> 0, fields |-> <<>>],
     [r |-> -ENOENT, fields |-> <<>>]}

OsReleaseHosts == {[DefaultHost EXCEPT !.os_release = f] : f \in OsReleaseFiles}

InitOsRelease ==
    /\ conds = <<>>
    /\ host \in OsReleaseHosts
    /\ last = NoCall
    /\ po = ScanIdle

NextOsRelease ==
    \/ NewCondition(OsReleasePool, 1)
    \/ TestCondition
    \/ TestList

SpecOsRelease == InitOsRelease /\ [][NextOsRelease]_vars

(***************************************************************************)
(* SpecCgroup: one ControlGroupController condition on hosts that differ   *)
(* in the cgroup facts.                                                    *)
(***************************************************************************)
Cgc_v1 == <<"v", "1">>
Cgc_v2 == <<"v", "2">>
Cgc_cpu == <<"c", "p", "u">>
Cgc_cpu_io == <<"c", "p", "u", " ", "i", "o">>
Cgc_pids == <<"p", "i", "d", "s">>
Cgc_cpu_unknown == <<"c", "p", "u", " ", "x">>
Cgc_unknown == <<"x">>
Cgc_empty == <<>>

\* The parameters that name at least one controller, with the controllers named.
CgcWanted ==
    [p \in {Cgc_cpu, Cgc_cpu_io, Cgc_pids, Cgc_cpu_unknown} |->
        IF p = Cgc_cpu_io THEN {CGROUP_MASK_CPU, CGROUP_MASK_IO}
        ELSE IF p = Cgc_pids THEN {CGROUP_MASK_PIDS}
        ELSE {CGROUP_MASK_CPU}]

\* The parameters that cannot be parsed into a non-empty controller mask.
CgcUnparseable == {Cgc_unknown, Cgc_empty}

CgcParams == {Cgc_v1, Cgc_v2} \cup DOMAIN CgcWanted \cup CgcUnparseable

CgroupPool == {<<CONDITION_CONTROL_GROUP_CONTROLLER, p>> : p \in CgcParams}

CgroupHosts ==
    {[DefaultHost EXCEPT !.cg_all_unified = u, !.cg_mask_supported = m] :
        u \in {1, 0, -EIO},
        m \in {[r |-> 0, mask |-> {CGROUP_MASK_CPU, CGROUP_MASK_IO, CGROUP_MASK_MEMORY}],
               [r |-> 0, mask |-> {CGROUP_MASK_CPU}],
               [r |-> 0, mask |-> {}],
               [r |-> -EIO, mask |-> {}]}}

InitCgroup ==
    /\ conds = <<>>
    /\ host \in CgroupHosts
    /\ last = NoCall
    /\ po = ScanIdle

NextCgroup ==
    \/ NewCondition(CgroupPool, 1)
    \/ TestCondition
    \/ TestList

SpecCgroup == InitCgroup /\ [][NextCgroup]_vars

(***************************************************************************)
(* SpecWords: one KernelCommandLine or Environment condition on hosts that *)
(* differ in /proc/cmdline and in the environment block.                   *)
(***************************************************************************)
Words == {<<"a">>, <<"a", "=", "b">>, <<"a", "b">>, <<"b", "=">>, <<"=", "a">>}

WordLists == {<<>>} \cup {<<w>> : w \in Words} \cup {<<v, w>> : v, w \in Words}

\* The line whose words are those of l.
LineOf(l) ==
    IF Len(l) = 0 THEN <<>>
    ELSE IF Len(l) = 1 THEN l[1]
    ELSE l[1] \o <<" ">> \o l[2]

WordParams == {<<>>, <<"a">>, <<"b">>, <<"a", "=">>, <<"a", "=", "b">>, <<"b", "=">>}

WordsPool ==
    {<<type, p>> : type \in {CONDITION_KERNEL_COMMAND_LINE, CONDITION_ENVIRONMENT},
                   p \in WordParams}

WordsHosts ==
    {[DefaultHost EXCEPT !.proc_cmdline = [r |-> 0, line |-> LineOf(l)], !.env = env] :
        l \in WordLists, env \in WordLists}
    \cup {[DefaultHost EXCEPT !.proc_cmdline = [r |-> -EIO, line |-> <<>>], !.env = env] :
             env \in WordLists}

InitWords ==
    /\ conds = <<>>
    /\ host \in WordsHosts
    /\ last = NoCall
    /\ po = ScanIdle

NextWords ==
    \/ NewCondition(WordsPool, 1)
    \/ TestCondition
    \/ TestList

SpecWords == InitWords /\ [][NextWords]_vars

(***************************************************************************)
(* SpecTables: every kind looked up in each of the three tables.           *)
(***************************************************************************)
Tables == {"condition_tests", "condition_type", "assert_type"}

InitTables ==
    /\ conds = <<>>
    /\ host = DefaultHost
    /\ last = NoCall
    /\ \E table \in Tables, type \in ConditionType \cup {CONDITION_TYPE_INVALID} :
           po = LookupCall(table, type)

NextTables == Lookup

SpecTables == InitTables /\ [][NextTables]_vars

(***************************************************************************)
(* SpecNew: condition_new for every kind, with the texts a caller may pass *)
(* (any text that is present, the empty text included).                    *)
(***************************************************************************)
NewParams == {<<>>, <<"a">>, <<"!", "a">>}

NewPool == ConditionType \X NewParams

InitNew ==
    /\ conds = <<>>
    /\ host = DefaultHost
    /\ last = NoCall
    /\ po = ScanIdle

NextNew ==
    \/ NewCondition(NewPool, MaxLen)
    \/ NewConditionNoMemory(MaxLen)

SpecNew == InitNew /\ [][NextNew]_vars

(***************************************************************************)
(* SpecPaths: the path predicates on /a, every probe with each outcome.    *)
(***************************************************************************)
PathKinds == {CONDITION_PATH_EXISTS, CONDITION_PATH_EXISTS_GLOB,
              CONDITION_PATH_IS_DIRECTORY, CONDITION_PATH_IS_SYMBOLIC_LINK,
              CONDITION_PATH_IS_MOUNT_POINT, CONDITION_PATH_IS_READ_WRITE,
              CONDITION_PATH_IS_ENCRYPTED, CONDITION_DIRECTORY_NOT_EMPTY,
              CONDITION_FILE_NOT_EMPTY, CONDITION_FILE_IS_EXECUTABLE}

PathsPool == PathKinds \X {PathA}

\* What a probe returning an int may give: true, false, and three failures.
PathProbes == {1, 0, -ENOENT, -ENOTDIR, -EIO}

\* What stat may give: a failure, or a file of some type, size and mode.
PathStats ==
    {[r |-> -1, reg |-> FALSE, size |-> 0, exec |-> 0]}
    \cup {[r |-> 0, reg |-> reg, size |-> size, exec |-> exec] :
              reg \in BOOLEAN, size \in {0, 1}, exec \in {0, 73}}

PathsHosts ==
    {[DefaultHost EXCEPT !.access = [p \in Paths |-> IF v >= 0 THEN 0 ELSE -1],
                         !.glob_exists = [p \in Paths |-> v],
                         !.is_dir = [p \in Paths |-> v],
                         !.is_symlink = [p \in Paths |-> v],
                         !.path_is_mount_point = [p \in Paths |-> v],
                         !.read_only_fs = [p \in Paths |-> v],
                         !.path_is_encrypted = [p \in Paths |-> v],
                         !.dir_is_empty = [p \in Paths |-> v],
                         !.stat = [p \in Paths |-> st]] :
        v \in PathProbes, st \in PathStats}

InitPaths ==
    /\ conds = <<>>
    /\ host \in PathsHosts
    /\ last = NoCall
    /\ po = ScanIdle

NextPaths ==
    \/ NewCondition(PathsPool, 1)
    \/ TestCondition
    \/ TestList

SpecPaths == InitPaths /\ [][NextPaths]_vars

(***************************************************************************)
(* SpecGlob: the evaluators that scan a comparator, each given every       *)
(* comparator text (or none) in front of a value.                          *)
(***************************************************************************)
GlobOperators == {prefix[ORDER_FNMATCH_EQUAL], prefix[ORDER_FNMATCH_UNEQUAL]}

OperatorTexts == {prefix[i] : i \in 0..(ORDER_MAX - 1)}

GlobValues ==
    [KernelVersion |-> {<<"6", ".", "1", ".", "0">>, <<"6", "*">>},
     OSRelease     |-> {<<"u", "b", "u", "n", "t", "u">>, <<"u", "*">>},
     CPUs          |-> {<<"4">>, <<"8">>},
     Memory        |-> {<<"2", "K">>, <<"4", "K">>},
     Firmware      |-> {<<"x", "1">>, <<"x", "*">>}]

\* The parameter of a kind with the comparator text op in front of value v.
GlobParam(type, op, v) ==
    CASE type = CONDITION_OS_RELEASE -> Key_ID \o op \o v
      [] type = CONDITION_FIRMWARE   -> <<"s", "m", "b", "i", "o", "s", "-", "f", "i", "e", "l", "d", "(", "v">> \o op \o v \o <<")">>
      [] OTHER                       -> op \o v

GlobKinds == {CONDITION_KERNEL_VERSION, CONDITION_OS_RELEASE, CONDITION_CPUS,
              CONDITION_MEMORY, CONDITION_FIRMWARE}

GlobPool ==
    UNION {{<<type, GlobParam(type, op, v)>> :
               op \in OperatorTexts \cup {<<>>}, v \in GlobValues[type]} :
           type \in GlobKinds}

GlobHosts ==
    {[DefaultHost EXCEPT !.release = Release_6_1,
                         !.os_release = [r |-> 0, fields |-> [k \in {Key_ID} |-> <<"u", "b", "u", "n", "t", "u">>]],
                         !.cpus_in_affinity_mask = 4,
                         !.physical_memory = 2048,
                         !.smbios = [f \in {<<"v">>} |-> [r |-> 0, value |-> <<"x", "1", "\n">>]]],
     [DefaultHost EXCEPT !.release = Release_5_4,
                         !.os_release = [r |-> 0, fields |-> [k \in {Key_ID} |-> <<"d", "e", "b", "i", "a", "n">>]],
                         !.cpus_in_affinity_mask = 8,
                         !.physical_memory = 8192,
                         !.smbios = [f \in {<<"v">>} |-> [r |-> 0, value |-> <<"y">>]]],
     [DefaultHost EXCEPT !.release = Release_6_5_generic,
                         !.cpus_in_affinity_mask = 2,
                         !.physical_memory = 1024,
                         !.smbios = [f \in {<<"v">>} |-> [r |-> 0, value |-> <<"x", "*">>]]]}

InitGlob ==
    /\ conds = <<>>
    /\ host \in GlobHosts
    /\ last = NoCall
    /\ po = ScanIdle

NextGlob ==
    \/ NewCondition(GlobPool, 1)
    \/ TestCondition
    \/ TestList

SpecGlob == InitGlob /\ [][NextGlob]_vars

(***************************************************************************)
(* SpecCredential: one Credential condition, each of the two directories   *)
(* not configured, failing, or holding, lacking or refusing the name.      *)
(***************************************************************************)
Credential_a == <<"a">>

CredentialDirs ==
    {[r |-> -ENXIO, names |-> {}, unreadable |-> {}],
     [r |-> -EIO, names |-> {}, unreadable |-> {}],
     [r |-> 0, names |-> {}, unreadable |-> {}],
     [r |-> 0, names |-> {Credential_a}, unreadable |-> {}],
     [r |-> 0, names |-> {}, unreadable |-> {Credential_a}]}

CredentialPool == {<<CONDITION_CREDENTIAL, p>> : p \in CredentialParams}

CredentialHosts ==
    {[DefaultHost EXCEPT !.credentials_dir = plain, !.encrypted_credentials_dir = encrypted] :
        plain \in CredentialDirs, encrypted \in CredentialDirs}

InitCredential ==
    /\ conds = <<>>
    /\ host \in CredentialHosts
    /\ last = NoCall
    /\ po = ScanIdle

NextCredential ==
    \/ NewCondition(CredentialPool, 1)
    \/ TestCondition
    \/ TestList

SpecCredential == InitCredential /\ [][NextCredential]_vars

(***************************************************************************)
(* SpecFree: lists of up to MaxFree conditions of three kinds, freed by    *)
(* kind or as a whole.                                                     *)
(***************************************************************************)
FreeKinds == {CONDITION_PATH_EXISTS, CONDITION_AC_POWER, CONDITION_HOST}

FreePool == {CONDITION_PATH_EXISTS, CONDITION_AC_POWER} \X {PathA}

InitFree ==
    /\ conds = <<>>
    /\ host = DefaultHost
    /\ last = NoCall
    /\ po = ScanIdle

NextFree ==
    \/ NewCondition(FreePool, MaxFree)
    \/ FreeListType(FreeKinds)

SpecFree == InitFree /\ [][NextFree]_vars

(***************************************************************************)
(* SpecLog: the list composer called with a logger, and without one.       *)
(***************************************************************************)
InitLog ==
    /\ conds = <<>>
    /\ host \in ListHosts
    /\ last = NoCall
    /\ po = ScanIdle

NextLog ==
    \/ NewCondition(ListPool, MaxLen)
    \/ TestListLogged
    \/ TestList

SpecLog == InitLog /\ [][NextLog]_vars

(***************************************************************************)
(* Observations shared by the properties below.                            *)
(***************************************************************************)
\* The evaluator's outcome for condition c on the current host.
EvalR(c) == condition_tests(c, host).r

\* The final boolean of c is true: no error, and (outcome > 0) XOR negate.
FinalTrue(c) == EvalR(c) >= 0 /\ ((EvalR(c) > 0) # c.negate)

\* What condition_test returns for c, per the contract of the composer.
Outcome(c) == IF EvalR(c) < 0 THEN EvalR(c) ELSE BoolToInt(FinalTrue(c))

ListCalled == last.op = "condition_test_list"
TestCalled == last.op = "condition_test"

\* The condition condition_test was called on, as it was before the call.
Tested == last.before[last.idx]

\* That call's evaluator outcome as a boolean, read back through negate.
TestedTrue == last.ret >= 0 /\ ((last.ret > 0) # Tested.negate)

Regulars(cs) == {i \in DOMAIN cs : ~cs[i].trigger}
Triggers(cs) == {i \in DOMAIN cs : cs[i].trigger}

(***************************************************************************)
(* C1: condition_test_list returns true iff every regular condition has a  *)
(* true final boolean and either there is no trigger condition or some     *)
(* trigger condition has a true final boolean; the empty list gives true.  *)
(***************************************************************************)
C1_ListVerdict ==
    ListCalled =>
        LET cs == last.before IN
        (last.ret = 1) <=>
            /\ \A i \in Regulars(cs) : FinalTrue(cs[i])
            /\ (Triggers(cs) = {} \/ \E i \in Triggers(cs) : FinalTrue(cs[i]))

\* A list call with a failing and a succeeding trigger whose verdict is true.
C1_Witness ==
    /\ ListCalled
    /\ last.ret = 1
    /\ \E i, j \in Triggers(last.before) :
           ~FinalTrue(last.before[i]) /\ FinalTrue(last.before[j])

(***************************************************************************)
(* C2: condition_test returns (r > 0) XOR negate for an evaluator outcome  *)
(* r >= 0; for r < 0 it returns r and sets result = error, negate or not.  *)
(***************************************************************************)
C2_NegateFlipsBooleanOnly ==
    TestCalled =>
        LET r == EvalR(Tested) IN
        /\ r >= 0 => last.ret = BoolToInt((r > 0) # Tested.negate)
        /\ r < 0 => last.ret = r /\ conds[last.idx].result = CONDITION_ERROR

\* condition_test on a negated condition whose evaluator errors.
C2_Witness ==
    /\ TestCalled
    /\ Tested.negate
    /\ EvalR(Tested) < 0
    /\ last.ret = EvalR(Tested)

\* condition_test on a negated condition whose evaluator is true.
C2_WitnessFlip ==
    /\ TestCalled
    /\ Tested.negate
    /\ EvalR(Tested) > 0
    /\ last.ret = 0

(***************************************************************************)
(* C3: condition_test_list never turns an evaluator error into success: an *)
(* erroring regular condition makes the verdict false, and a list whose    *)
(* trigger conditions all error has verdict false, negate or not.          *)
(***************************************************************************)
C3_ErrorNeverSuccess ==
    ListCalled =>
        LET cs == last.before IN
        /\ (\E i \in Regulars(cs) : EvalR(cs[i]) < 0) => last.ret = 0
        /\ (Triggers(cs) # {} /\ \A i \in Triggers(cs) : EvalR(cs[i]) < 0) => last.ret = 0

\* A list call whose only trigger is negated and errors, all regulars passing.
C3_Witness ==
    /\ ListCalled
    /\ last.ret = 0
    /\ \A i \in Regulars(last.before) : FinalTrue(last.before[i])
    /\ \E i \in Triggers(last.before) : last.before[i].negate
    /\ \A i \in Triggers(last.before) : EvalR(last.before[i]) < 0

(***************************************************************************)
(* C4: an evaluation changes only the result field of a condition: kind,   *)
(* parameter text, trigger and negate are as they were before the call.    *)
(***************************************************************************)
C4_OnlyResultChanges ==
    last.op # "none" =>
        /\ Len(conds) = Len(last.before)
        /\ \A i \in DOMAIN conds :
               /\ conds[i].type = last.before[i].type
               /\ conds[i].parameter = last.before[i].parameter
               /\ conds[i].trigger = last.before[i].trigger
               /\ conds[i].negate = last.before[i].negate

(***************************************************************************)
(* C5: condition_test_list evaluates the conditions in list order up to    *)
(* and including the first regular condition whose outcome is <= 0 (all of *)
(* them when there is none); later conditions keep their earlier result.   *)
(***************************************************************************)
\* The position of the first regular condition with outcome <= 0, else the length.
StopAt(cs) ==
    LET stops == {i \in Regulars(cs) : Outcome(cs[i]) <= 0} IN
    IF stops = {} THEN Len(cs) ELSE CHOOSE i \in stops : \A j \in stops : i <= j

C5_OrderAndShortCircuit ==
    ListCalled =>
        LET cs == last.before IN
        /\ last.evaluated = [i \in 1..StopAt(cs) |-> i]
        /\ \A i \in 1..StopAt(cs) : conds[i].result # CONDITION_UNTESTED
        /\ \A i \in DOMAIN cs : i > StopAt(cs) => conds[i] = cs[i]

\* A list call that stops at its first condition and leaves a second one,
\* tested earlier, with a result another evaluation would not give it.
C5_Witness ==
    /\ ListCalled
    /\ Len(last.before) = 2
    /\ last.evaluated = <<1>>
    /\ conds[2].result # CONDITION_UNTESTED
    /\ conds[2].result # condition_test(conds[2], host).c.result

\* A list call in which a succeeding trigger is followed by an evaluated condition.
C5_WitnessTrigger ==
    /\ ListCalled
    /\ Len(last.before) = 2
    /\ last.before[1].trigger
    /\ FinalTrue(last.before[1])
    /\ last.evaluated = <<1, 2>>

(***************************************************************************)
(* C6: after condition_test returns v the condition's result is succeeded  *)
(* iff v > 0, failed iff v = 0, error iff v < 0, and never untested.       *)
(***************************************************************************)
C6_ResultMatchesReturn ==
    TestCalled =>
        LET res == conds[last.idx].result IN
        /\ res # CONDITION_UNTESTED
        /\ (res = CONDITION_SUCCEEDED) <=> (last.ret > 0)
        /\ (res = CONDITION_FAILED) <=> (last.ret = 0)
        /\ (res = CONDITION_ERROR) <=> (last.ret < 0)

\* condition_test on a condition that had succeeded before and fails now.
C6_Witness ==
    /\ TestCalled
    /\ Tested.result = CONDITION_SUCCEEDED
    /\ conds[last.idx].result = CONDITION_FAILED

(***************************************************************************)
(* C7: with glob allowed parse_order returns the longest of the eight      *)
(* operators that prefixes the input and advances the cursor by its        *)
(* length, or returns none with the cursor unchanged; with glob disallowed *)
(* an input starting with =$ or !=$ gives none with the cursor unchanged   *)
(* and every other input is scanned as with glob allowed.                  *)
(***************************************************************************)
\* The eight operators as the claim lists them.
ComparatorTexts ==
    {[order |-> ORDER_FNMATCH_EQUAL,    text |-> <<"=", "$">>],
     [order |-> ORDER_FNMATCH_UNEQUAL,  text |-> <<"!", "=", "$">>],
     [order |-> ORDER_LOWER_OR_EQUAL,   text |-> <<"<", "=">>],
     [order |-> ORDER_GREATER_OR_EQUAL, text |-> <<">", "=">>],
     [order |-> ORDER_LOWER,            text |-> <<"<">>],
     [order |-> ORDER_GREATER,          text |-> <<">">>],
     [order |-> ORDER_EQUAL,            text |-> <<"=">>],
     [order |-> ORDER_UNEQUAL,          text |-> <<"!", "=">>]}

IsPrefix(p, s) == Len(p) <= Len(s) /\ \A i \in DOMAIN p : s[i] = p[i]

PrefixingOperators(s) == {o \in ComparatorTexts : IsPrefix(o.text, s)}

LongestOperator(s) ==
    CHOOSE o \in PrefixingOperators(s) :
        \A q \in PrefixingOperators(s) : Len(q.text) <= Len(o.text)

\* The scan the claim describes for glob allowed: [order, rest].
LongestScan(s) ==
    IF PrefixingOperators(s) = {}
    THEN [order |-> ORDER_INVALID, rest |-> s]
    ELSE [order |-> LongestOperator(s).order,
          rest |-> SubSeq(s, Len(LongestOperator(s).text) + 1, Len(s))]

StartsWithGlobOperator(s) == IsPrefix(<<"=", "$">>, s) \/ IsPrefix(<<"!", "=", "$">>, s)

C7_LongestOperator ==
    po.pc = "done" =>
        LET want == IF ~po.allow_fnmatch /\ StartsWithGlobOperator(po.s)
                    THEN [order |-> ORDER_INVALID, rest |-> po.s]
                    ELSE LongestScan(po.s)
        IN  /\ po.order = want.order
            /\ po.rest = want.rest

\* A finished scan of an input starting with =$ with glob disallowed.
C7_Witness ==
    /\ po.pc = "done"
    /\ ~po.allow_fnmatch
    /\ IsPrefix(<<"=", "$">>, po.s)
    /\ po.order = ORDER_INVALID

\* A finished scan that returned the three-character operator !=$.
C7_WitnessLongest ==
    /\ po.pc = "done"
    /\ po.allow_fnmatch
    /\ po.order = ORDER_FNMATCH_UNEQUAL
    /\ Len(po.s) - Len(po.rest) = 3

(***************************************************************************)
(* C8: KernelVersion with the parameter ">= 5.10 < 6.0 *-generic" is true  *)
(* for release 5.15.0-42-generic and false, not an error, for 6.1.0.       *)
(***************************************************************************)
KernelVersionTested == TestCalled /\ Tested.type = CONDITION_KERNEL_VERSION

C8_SpacedParameter ==
    (KernelVersionTested /\ Tested.parameter = ParamSpaced) =>
        /\ host.release = Release_5_15_generic => TestedTrue
        /\ host.release = Release_6_1 =>
               last.ret >= 0 /\ ~TestedTrue /\ conds[last.idx].result # CONDITION_ERROR

(***************************************************************************)
(* C8 as amended: KernelVersion with the parameter ">= 5.10 <6.0           *)
(* *-generic" is true for release 5.15.0-42-generic and false, not an      *)
(* error, for 6.1.0, and a parameter made of sub-expressions with attached *)
(* comparators is true iff every sub-expression holds; with the parameter  *)
(* ">= 5.10 < 6.0 *-generic" the result is an error for both releases.     *)
(***************************************************************************)
\* The words of a parameter.
RECURSIVE WordsOf(_)
WordsOf(p) ==
    LET start == skip_chars(p, WHITESPACE)
        word  == take_until(start, WHITESPACE)
    IN  IF start = <<>> THEN {}
        ELSE {word} \cup WordsOf(SubSeq(start, Len(word) + 1, Len(start)))

\* One sub-expression holds for a release.
WordHolds(w, release) ==
    CASE w = Ge_5_10     -> strverscmp_improved(release, <<"5", ".", "1", "0">>) >= 0
      [] w = Lt_6_0      -> strverscmp_improved(release, <<"6", ".", "0">>) < 0
      [] w = GlobGeneric -> fnmatch(GlobGeneric, release)

C8_AllMustMatch ==
    KernelVersionTested =>
        /\ Tested.parameter = ParamAttached =>
               /\ host.release = Release_5_15_generic => TestedTrue
               /\ host.release = Release_6_1 =>
                      last.ret >= 0 /\ ~TestedTrue
                      /\ conds[last.idx].result # CONDITION_ERROR
        /\ Tested.parameter \in KernelVersionWordLists =>
               /\ last.ret >= 0
               /\ TestedTrue <=> \A w \in WordsOf(Tested.parameter) : WordHolds(w, host.release)
        /\ (Tested.parameter = ParamSpaced
            /\ host.release \in {Release_5_15_generic, Release_6_1}) =>
               last.ret = -EINVAL /\ conds[last.idx].result = CONDITION_ERROR

\* The attached parameter evaluated on release 6.1.0: the first
\* sub-expression holds, the second fails, the result is failed.
C8_Witness ==
    /\ KernelVersionTested
    /\ Tested.parameter = ParamAttached
    /\ ~Tested.negate
    /\ host.release = Release_6_1
    /\ last.ret = 0
    /\ conds[last.idx].result = CONDITION_FAILED

(***************************************************************************)
(* C9: PathIsReadWrite is true iff the read-only probe does not report a   *)
(* read-only file system, in particular when the probe fails with ENOENT.  *)
(***************************************************************************)
ReadWriteTested == TestCalled /\ Tested.type = CONDITION_PATH_IS_READ_WRITE

C9_TrueUnlessReadOnly ==
    ReadWriteTested =>
        /\ last.ret >= 0
        /\ TestedTrue <=> ~(path_is_read_only_fs(host, Tested.parameter) > 0)

(***************************************************************************)
(* C9 as amended: PathIsReadWrite is true iff the read-only probe neither  *)
(* reports a read-only file system nor fails with ENOENT; a probe that     *)
(* fails with ENOENT gives false, any other probe failure gives true.      *)
(***************************************************************************)
C9_FalseOnENOENT ==
    ReadWriteTested =>
        LET r == path_is_read_only_fs(host, Tested.parameter) IN
        /\ last.ret >= 0
        /\ TestedTrue <=> (~(r > 0) /\ r # -ENOENT)
        /\ r = -ENOENT => ~TestedTrue
        /\ (r < 0 /\ r # -ENOENT) => TestedTrue

\* PathIsReadWrite tested on a path whose probe fails with ENOENT: failed.
C9_Witness ==
    /\ ReadWriteTested
    /\ ~Tested.negate
    /\ path_is_read_only_fs(host, Tested.parameter) = -ENOENT
    /\ last.ret = 0
    /\ conds[last.idx].result = CONDITION_FAILED

(***************************************************************************)
(* C10: with equal mtime seconds of /usr and .updated, NeedsUpdate decides *)
(* by nanoseconds only if both nanosecond fields are > 0, and otherwise    *)
(* goes on to the TIMESTAMP_NSEC comparison.                               *)
(***************************************************************************)
\* condition_test ran NeedsUpdate and the comparison of the two mtimes was
\* reached with equal seconds.
EqualSecondsTested ==
    /\ TestCalled
    /\ Tested.type = CONDITION_NEEDS_UPDATE
    /\ host.cmdline_needs_update.r <= 0
    /\ ~host.in_initrd
    /\ Tested.parameter = PathA
    /\ host.read_only_fs[PathA] <= 0
    /\ host.updated.r = 0
    /\ host.usr.r = 0
    /\ host.usr.sec = host.updated.sec

\* The answer by nanoseconds.
ByNanoseconds == host.usr.nsec > host.updated.nsec

\* The answer of the TIMESTAMP_NSEC comparison: true when the value is
\* missing or unparseable, else /usr's mtime in nanoseconds > the value.
ByTimestampFile ==
    LET ts == host.timestamp IN
    IF ts.r < 0 \/ ts.str = NULL \/ ts.str = <<>>
       \/ \E i \in DOMAIN ts.str : ts.str[i] \notin Range(DIGITS)
    THEN TRUE
    ELSE host.usr.sec * 1000000000 + host.usr.nsec > decimal_value(ts.str, 0)

C10_NsecOnlyIfBothSet ==
    EqualSecondsTested =>
        /\ last.ret >= 0
        /\ TestedTrue <=> IF host.usr.nsec > 0 /\ host.updated.nsec > 0
                          THEN ByNanoseconds ELSE ByTimestampFile

(***************************************************************************)
(* C10 as amended: with equal mtime seconds NeedsUpdate decides by         *)
(* nanoseconds if /usr's nsec = 0 or the target's nsec > 0; only when      *)
(* /usr's nsec > 0 and the target's nsec = 0 does it go on to the          *)
(* TIMESTAMP_NSEC comparison.                                              *)
(***************************************************************************)
C10_NsecUnlessTargetLacksNsec ==
    EqualSecondsTested =>
        /\ last.ret >= 0
        /\ TestedTrue <=> IF host.usr.nsec = 0 \/ host.updated.nsec > 0
                          THEN ByNanoseconds ELSE ByTimestampFile

\* Both nanosecond fields are 0 and the timestamp file has no value: the
\* nanosecond comparison decides and gives false.
C10_Witness ==
    /\ EqualSecondsTested
    /\ ~Tested.negate
    /\ host.usr.nsec = 0
    /\ host.updated.nsec = 0
    /\ ByTimestampFile
    /\ last.ret = 0

\* /usr has nanoseconds, the target has none: the timestamp file decides
\* against the nanosecond comparison.
C10_WitnessTimestamp ==
    /\ EqualSecondsTested
    /\ ~Tested.negate
    /\ host.usr.nsec > 0
    /\ host.updated.nsec = 0
    /\ ~ByTimestampFile
    /\ last.ret = 0

(***************************************************************************)
(* C11: NeedsUpdate decides in a fixed priority order: the kernel command  *)
(* line override fixes the result; otherwise an initrd gives false;        *)
(* otherwise a non-absolute parameter gives true; otherwise a read-only    *)
(* file system gives false; the timestamps are consulted only after that.  *)
(***************************************************************************)
NeedsUpdateTested == TestCalled /\ Tested.type = CONDITION_NEEDS_UPDATE

\* One of the four checks ahead of the timestamps decides.
DecidedEarly ==
    \/ host.cmdline_needs_update.r > 0
    \/ host.in_initrd
    \/ Head(Tested.parameter) # "/"
    \/ path_is_read_only_fs(host, Tested.parameter) > 0

\* The host with other timestamps: .updated missing, or /usr newer resp. older.
OtherTimestamps ==
    {[host EXCEPT !.updated = StatFailed(ENOENT)],
     [host EXCEPT !.updated = [r |-> 0, sec |-> 1, nsec |-> 0],
                  !.usr = [r |-> 0, sec |-> 2, nsec |-> 0]],
     [host EXCEPT !.updated = [r |-> 0, sec |-> 2, nsec |-> 0],
                  !.usr = [r |-> 0, sec |-> 1, nsec |-> 0]]}

C11_PriorityOrder ==
    NeedsUpdateTested =>
        LET o  == host.cmdline_needs_update
            ab == Head(Tested.parameter) = "/"
            ro == path_is_read_only_fs(host, Tested.parameter) > 0
        IN  /\ o.r > 0 => (TestedTrue <=> o.b)
            /\ (o.r <= 0 /\ host.in_initrd) => ~TestedTrue
            /\ (o.r <= 0 /\ ~host.in_initrd /\ ~ab) => TestedTrue
            /\ (o.r <= 0 /\ ~host.in_initrd /\ ab /\ ro) => ~TestedTrue
            /\ DecidedEarly =>
                   \A h \in OtherTimestamps :
                       condition_test(Tested, h).ret = last.ret

\* A non-absolute parameter inside an initrd, no override: false.
C11_Witness ==
    /\ NeedsUpdateTested
    /\ ~Tested.negate
    /\ host.cmdline_needs_update.r <= 0
    /\ host.in_initrd
    /\ Tested.parameter = PathRelative
    /\ last.ret = 0

\* An override of true inside an initrd: true.
C11_WitnessOverride ==
    /\ NeedsUpdateTested
    /\ ~Tested.negate
    /\ host.cmdline_needs_update = [r |-> 1, b |-> TRUE]
    /\ host.in_initrd
    /\ last.ret = 1

(***************************************************************************)
(* C12: NeedsUpdate never yields an error; once the four early checks have *)
(* not decided, a missing .updated, another stat failure on it and a stat  *)
(* failure on /usr/ give true; with both stats done and different seconds  *)
(* the result is true iff /usr's seconds are greater; and where the        *)
(* TIMESTAMP_NSEC value is consulted, a missing or unparseable value gives *)
(* true.                                                                   *)
(***************************************************************************)
\* The comparison of the timestamp file is reached.
TimestampConsulted ==
    /\ host.updated.r = 0
    /\ host.usr.r = 0
    /\ host.usr.sec = host.updated.sec
    /\ host.usr.nsec > 0
    /\ host.updated.nsec = 0

\* TIMESTAMP_NSEC is missing or not a number.
TimestampUnusable ==
    LET ts == host.timestamp IN
    \/ ts.r < 0
    \/ ts.str = NULL
    \/ ts.str = <<>>
    \/ \E i \in DOMAIN ts.str : ts.str[i] \notin Range(DIGITS)

C12_WitnessStatFailure ==
    /\ NeedsUpdateTested
    /\ ~Tested.negate
    /\ ~DecidedEarly
    /\ host.updated = StatFailed(EIO)
    /\ last.ret = 1
    /\ conds[last.idx].result = CONDITION_SUCCEEDED

(***************************************************************************)
(* C13: for every parameter form, global or cgroup-scoped, a pressure      *)
(* predicate returns true whenever the unified hierarchy is absent or the  *)
(* corresponding controller is not supported.                              *)
(***************************************************************************)
PsiTested == TestCalled /\ Tested.type \in PsiTypes

UnifiedAbsent == host.cg_all_unified = 0

ControllerMissing ==
    /\ host.cg_mask_supported.r = 0
    /\ psi_required_mask(Tested.type) \notin host.cg_mask_supported.mask

C13_SkipPassEveryForm ==
    (PsiTested /\ (UnifiedAbsent \/ ControllerMissing)) => TestedTrue

(***************************************************************************)
(* C13 as amended: a pressure predicate returns true whenever PSI is not   *)
(* supported; in the cgroup-scoped form CGROUP:PCT it returns true when    *)
(* the unified hierarchy is absent, and when the hierarchy is unified and  *)
(* the supported mask lacks the corresponding controller.  The global form *)
(* consults neither: its result is the same whatever they are.             *)
(***************************************************************************)
\* The hosts that differ from the current one in the cgroup facts only.
OtherCgroupFacts ==
    {[host EXCEPT !.cg_all_unified = u, !.cg_mask_supported = m] :
        u \in {1, 0, -EIO},
        m \in {[r |-> 0, mask |-> {CGROUP_MASK_CPU, CGROUP_MASK_IO, CGROUP_MASK_MEMORY}],
               [r |-> 0, mask |-> {}],
               [r |-> -EIO, mask |-> {}]}}

C13_SkipPassCgroupForm ==
    PsiTested =>
        /\ ~host.pressure_supported => TestedTrue
        /\ (host.pressure_supported /\ Tested.parameter \in PsiCgroupParams) =>
               /\ UnifiedAbsent => TestedTrue
               /\ (host.cg_all_unified > 0 /\ ControllerMissing) => TestedTrue
        /\ Tested.parameter \in PsiGlobalParams =>
               \A h \in OtherCgroupFacts : condition_test(Tested, h).ret = last.ret

\* The cgroup form on a host without the unified hierarchy: true.
C13_Witness ==
    /\ PsiTested
    /\ ~Tested.negate
    /\ host.pressure_supported
    /\ Tested.parameter = Psi_cgroup_15pct_10sec
    /\ UnifiedAbsent
    /\ last.ret = 1
    /\ conds[last.idx].result = CONDITION_SUCCEEDED

\* The global form on a host without the unified hierarchy: false, the
\* pressure being above the limit.
C13_WitnessGlobal ==
    /\ PsiTested
    /\ ~Tested.negate
    /\ host.pressure_supported
    /\ Tested.parameter = Psi_10_10sec
    /\ UnifiedAbsent
    /\ last.ret = 0

(***************************************************************************)
(* C14: a pressure predicate that reads the pressure data returns true iff *)
(* the selected window's average is <= the limit; the window is avg10 for  *)
(* 10sec, avg60 for 1min, avg300 for 5min or no window; the full line is   *)
(* read first and some is used only when full is absent; a pressure file   *)
(* that does not exist gives true.                                         *)
(***************************************************************************)
\* The window and the limit (in hundredths of a percent) a parameter asks for.
PsiWanted(p) ==
    CASE p = Psi_5000               -> [window |-> "avg300", limit |-> 5000]
      [] p = Psi_15pct              -> [window |-> "avg300", limit |-> 1500]
      [] p = Psi_10_10sec           -> [window |-> "avg10",  limit |-> 10]
      [] p = Psi_15pct_10sec        -> [window |-> "avg10",  limit |-> 1500]
      [] p = Psi_15pct_1min         -> [window |-> "avg60",  limit |-> 1500]
      [] p = Psi_10pct_1min         -> [window |-> "avg60",  limit |-> 1000]
      [] p = Psi_15pct_5min         -> [window |-> "avg300", limit |-> 1500]
      [] p = Psi_cgroup_15pct       -> [window |-> "avg300", limit |-> 1500]
      [] p = Psi_cgroup_15pct_10sec -> [window |-> "avg10",  limit |-> 1500]

\* The averages of a line of PressureFiles in hundredths of a percent.
Hundredths(line) ==
    IF line = PressureLine(2000, 1000, 40)
    THEN [avg10 |-> 2000, avg60 |-> 1000, avg300 |-> 40]
    ELSE [avg10 |-> 1000, avg60 |-> 2000, avg300 |-> 3000]

\* The pressure file the tested condition reads.
PsiFile ==
    IF Tested.parameter \in PsiGlobalParams
    THEN [root |-> <<"proc", "pressure">>, slice |-> <<>>,
          file |-> psi_pressure_type(Tested.type)]
    ELSE [root |-> IF host.root_scope.path = <<"user.slice">> THEN <<"user.slice">> ELSE <<>>,
          slice |-> <<"a", ".", "s", "l", "i", "c", "e">>,
          file |-> psi_controller(Tested.type)]

\* The tested condition gets as far as reading the pressure data.
PsiReads ==
    /\ PsiTested
    /\ host.pressure_supported
    /\ \/ Tested.parameter \in PsiGlobalParams
       \/ /\ Tested.parameter \in {Psi_cgroup_15pct, Psi_cgroup_15pct_10sec}
          /\ host.cg_all_unified > 0
          /\ host.cg_mask_supported.r = 0
          /\ ~ControllerMissing

\* The line the result is taken from: full, or some when full is absent.
PsiLine ==
    LET f == host.pressure[PsiFile] IN
    IF f.full.r = -ENODATA THEN f.some ELSE f.full

C14_WindowAndLimit ==
    PsiReads =>
        IF PsiFile \notin DOMAIN host.pressure
        THEN TestedTrue
        ELSE IF PsiLine.r < 0
        THEN last.ret = PsiLine.r
        ELSE /\ last.ret >= 0
             /\ TestedTrue <=>
                    Hundredths(PsiLine)[PsiWanted(Tested.parameter).window]
                        <= PsiWanted(Tested.parameter).limit

\* The average of the 1min window equals the limit: true.
C14_Witness ==
    /\ PsiReads
    /\ ~Tested.negate
    /\ Tested.parameter = Psi_10pct_1min
    /\ PsiFile \in DOMAIN host.pressure
    /\ host.pressure[PsiFile].full.r = 0
    /\ last.ret = 1

\* The full line is absent and the some line decides: avg300 above the limit.
C14_WitnessSome ==
    /\ PsiReads
    /\ ~Tested.negate
    /\ Tested.parameter = Psi_15pct
    /\ PsiFile \in DOMAIN host.pressure
    /\ host.pressure[PsiFile].full.r = -ENODATA
    /\ last.ret = 0

\* The pressure file of the cgroup does not exist: true.
C14_WitnessMissing ==
    /\ PsiReads
    /\ ~Tested.negate
    /\ Tested.parameter = Psi_cgroup_15pct_10sec
    /\ PsiFile \notin DOMAIN host.pressure
    /\ last.ret = 1


(***************************************************************************)
(* C15: a parameter that does not conform to its kind's syntax gives       *)
(* result = error: Firmware with a malformed device-tree-compatible(       *)
(* expression or an unknown literal, Credential with an invalid name,      *)
(* Security with an unknown module, Architecture with an unknown name,     *)
(* ACPower or FirstBoot with a non-boolean.                                *)
(***************************************************************************)
\* The parameters of the model that do not conform to the syntax of a kind.
Nonconforming(type) ==
    CASE type = CONDITION_FIRMWARE     -> FirmwareMalformedDeviceTree \cup FirmwareUnknown
      [] type = CONDITION_CREDENTIAL   -> CredentialInvalid
      [] type = CONDITION_SECURITY     -> SecurityUnknown
      [] type = CONDITION_ARCHITECTURE -> ArchitectureUnknown
      [] type = CONDITION_AC_POWER     -> {NotABoolean}
      [] type = CONDITION_FIRST_BOOT   -> {NotABoolean}
      [] OTHER -> {}

NonconformingTested == TestCalled /\ Tested.parameter \in Nonconforming(Tested.type)

C15_SyntaxIsError ==
    NonconformingTested => conds[last.idx].result = CONDITION_ERROR

(***************************************************************************)
(* C15 as amended: ACPower with a non-boolean, FirstBoot with a            *)
(* non-boolean and no kernel command line override, and Firmware with a    *)
(* malformed smbios-field( expression give result = error.  Firmware with  *)
(* a malformed device-tree-compatible( expression or an unknown literal,   *)
(* Credential with an invalid name, Security with an unknown module and    *)
(* Architecture with an unknown name (the host's architecture being known) *)
(* evaluate to false, never to an error.                                   *)
(***************************************************************************)
C15_SyntaxErrorByKind ==
    TestCalled =>
        /\ (Tested.type = CONDITION_AC_POWER /\ Tested.parameter = NotABoolean)
              => conds[last.idx].result = CONDITION_ERROR
        /\ (Tested.type = CONDITION_FIRST_BOOT /\ Tested.parameter = NotABoolean
               /\ host.cmdline_first_boot.r <= 0)
              => conds[last.idx].result = CONDITION_ERROR
        /\ (Tested.type = CONDITION_FIRMWARE /\ Tested.parameter \in FirmwareMalformedSmbios)
              => conds[last.idx].result = CONDITION_ERROR
        /\ (Tested.type \in {CONDITION_FIRMWARE, CONDITION_CREDENTIAL, CONDITION_SECURITY}
               /\ Tested.parameter \in Nonconforming(Tested.type))
              => (last.ret >= 0 /\ ~TestedTrue)
        /\ (Tested.type = CONDITION_ARCHITECTURE /\ Tested.parameter \in ArchitectureUnknown
               /\ host.architecture.r >= 0)
              => (last.ret >= 0 /\ ~TestedTrue)

\* Firmware with a malformed device-tree-compatible( expression: failed.
C15_Witness ==
    /\ TestCalled
    /\ Tested.type = CONDITION_FIRMWARE
    /\ Tested.parameter = Fw_dtc_open
    /\ ~Tested.negate
    /\ host.dtcompat.r = 0
    /\ conds[last.idx].result = CONDITION_FAILED

\* ACPower with a non-boolean: error.
C15_WitnessError ==
    /\ TestCalled
    /\ Tested.type = CONDITION_AC_POWER
    /\ Tested.parameter = NotABoolean
    /\ last.ret = -EINVAL
    /\ conds[last.idx].result = CONDITION_ERROR

(***************************************************************************)
(* C17: with a kernel command line override FirstBoot returns the override *)
(* value whatever the parameter is, a non-boolean parameter included;      *)
(* without an override the result is true iff the boolean parameter equals *)
(* the presence of /run/systemd/first-boot, and a non-boolean parameter is *)
(* an error.                                                               *)
(***************************************************************************)
FirstBootTested == TestCalled /\ Tested.type = CONDITION_FIRST_BOOT

\* The boolean a parameter of BooleanParams stands for.
WantedBoolean(p) == p = <<"t", "r", "u", "e">>

C17_FirstBootOverride ==
    FirstBootTested =>
        IF host.cmdline_first_boot.r > 0
        THEN /\ last.ret >= 0
             /\ TestedTrue <=> host.cmdline_first_boot.b
        ELSE IF Tested.parameter = NotABoolean
        THEN last.ret < 0 /\ conds[last.idx].result = CONDITION_ERROR
        ELSE /\ last.ret >= 0
             /\ TestedTrue <=> (WantedBoolean(Tested.parameter) = (host.first_boot_access = 0))

\* An override of true with a non-boolean parameter: true, no error.
C17_Witness ==
    /\ FirstBootTested
    /\ ~Tested.negate
    /\ Tested.parameter = NotABoolean
    /\ host.cmdline_first_boot = [r |-> 1, b |-> TRUE]
    /\ last.ret = 1
    /\ conds[last.idx].result = CONDITION_SUCCEEDED

\* No override, parameter no, /run/systemd/first-boot absent: true.
C17_WitnessNoOverride ==
    /\ FirstBootTested
    /\ ~Tested.negate
    /\ Tested.parameter = <<"n", "o">>
    /\ host.cmdline_first_boot.r = 0
    /\ host.first_boot_access = -ENOENT
    /\ last.ret = 1


(***************************************************************************)
(* C16: OSRelease compares the os-release value of KEY with VALUE by exact *)
(* string equality for = and != and by version comparison for <, <=, >=    *)
(* and >; a missing key behaves as the empty string, so KEY=VALUE is false *)
(* and KEY!=VALUE is true for it.  With VERSION_ID=22.04 the item          *)
(* VERSION_ID=22.4 is false and VERSION_ID>=20.04 is true.                 *)
(***************************************************************************)
\* Key, operator and value of an item of OsReleaseItems.
ItemOf(p) ==
    CASE
         p = Item_VERSION_ID_eq_22_4 -> [key |-> Key_VERSION_ID, order |-> ORDER_EQUAL, value |-> <<"2", "2", ".", "4">>]
      [] p = Item_VERSION_ID_eq_22_04 -> [key |-> Key_VERSION_ID, order |-> ORDER_EQUAL, value |-> <<"2", "2", ".", "0", "4">>]
      [] p = Item_VERSION_ID_ne_22_4 -> [key |-> Key_VERSION_ID, order |-> ORDER_UNEQUAL, value |-> <<"2", "2", ".", "4">>]
      [] p = Item_VERSION_ID_ge_20_04 -> [key |-> Key_VERSION_ID, order |-> ORDER_GREATER_OR_EQUAL, value |-> <<"2", "0", ".", "0", "4">>]
      [] p = Item_VERSION_ID_lt_20_04 -> [key |-> Key_VERSION_ID, order |-> ORDER_LOWER, value |-> <<"2", "0", ".", "0", "4">>]
      [] p = Item_VERSION_ID_le_22_04 -> [key |-> Key_VERSION_ID, order |-> ORDER_LOWER_OR_EQUAL, value |-> <<"2", "2", ".", "0", "4">>]
      [] p = Item_VERSION_ID_gt_22_04 -> [key |-> Key_VERSION_ID, order |-> ORDER_GREATER, value |-> <<"2", "2", ".", "0", "4">>]
      [] p = Item_ID_eq_ubuntu -> [key |-> Key_ID, order |-> ORDER_EQUAL, value |-> <<"u", "b", "u", "n", "t", "u">>]
      [] p = Item_ID_eq_debian -> [key |-> Key_ID, order |-> ORDER_EQUAL, value |-> <<"d", "e", "b", "i", "a", "n">>]
      [] p = Item_ID_ne_debian -> [key |-> Key_ID, order |-> ORDER_UNEQUAL, value |-> <<"d", "e", "b", "i", "a", "n">>]

\* The os-release value of a key, the empty string for a missing key.
OsReleaseValue(key) ==
    IF key \in DOMAIN host.os_release.fields THEN host.os_release.fields[key] ELSE <<>>

\* What an item asks for holds on the host.
ItemHolds(p) ==
    LET i == ItemOf(p)
        v == OsReleaseValue(i.key)
        o == strverscmp_improved(v, i.value)
    IN  CASE i.order = ORDER_EQUAL            -> v = i.value
          [] i.order = ORDER_UNEQUAL          -> v # i.value
          [] i.order = ORDER_LOWER            -> o < 0
          [] i.order = ORDER_LOWER_OR_EQUAL   -> o <= 0
          [] i.order = ORDER_GREATER_OR_EQUAL -> o >= 0
          [] i.order = ORDER_GREATER          -> o > 0

OsReleaseTested ==
    /\ TestCalled
    /\ Tested.type = CONDITION_OS_RELEASE
    /\ host.os_release.r = 0

C16_ExactAndVersionCompare ==
    OsReleaseTested =>
        /\ Tested.parameter \in OsReleaseItems =>
               /\ last.ret >= 0
               /\ TestedTrue <=> ItemHolds(Tested.parameter)
        /\ \A a, b \in OsReleaseItems :
               Tested.parameter = Join(a, b) =>
                   /\ last.ret >= 0
                   /\ TestedTrue <=> (ItemHolds(a) /\ ItemHolds(b))
        /\ (Tested.parameter \in OsReleaseItems
               /\ ItemOf(Tested.parameter).key \notin DOMAIN host.os_release.fields
               /\ ItemOf(Tested.parameter).order \in {ORDER_EQUAL, ORDER_UNEQUAL})
              => (TestedTrue <=> ItemOf(Tested.parameter).order = ORDER_UNEQUAL)
        /\ Key_VERSION_ID \in DOMAIN host.os_release.fields =>
               /\ Tested.parameter = Item_VERSION_ID_eq_22_4 => ~TestedTrue
               /\ Tested.parameter = Item_VERSION_ID_ge_20_04 => TestedTrue

\* VERSION_ID=22.4 against VERSION_ID=22.04: false.
C16_Witness ==
    /\ OsReleaseTested
    /\ ~Tested.negate
    /\ Tested.parameter = Item_VERSION_ID_eq_22_4
    /\ Key_VERSION_ID \in DOMAIN host.os_release.fields
    /\ last.ret = 0

\* ID!=debian on a host whose os-release sets no ID: true.
C16_WitnessMissingKey ==
    /\ OsReleaseTested
    /\ ~Tested.negate
    /\ Tested.parameter = Item_ID_ne_debian
    /\ Key_ID \notin DOMAIN host.os_release.fields
    /\ last.ret = 1


(***************************************************************************)
(* C18: ControlGroupController gives for v2 the unified-hierarchy state    *)
(* and for v1 its negation; for another parameter that cannot be parsed    *)
(* into a non-empty controller mask it gives true; otherwise true iff      *)
(* every wanted controller is in the supported mask.  A failure to         *)
(* determine the unified state or the supported mask is an error.          *)
(***************************************************************************)
CgroupTested == TestCalled /\ Tested.type = CONDITION_CONTROL_GROUP_CONTROLLER

C18_ControllerPolicy ==
    CgroupTested =>
        LET p == Tested.parameter
            u == host.cg_all_unified
            m == host.cg_mask_supported
        IN  /\ p \in {Cgc_v1, Cgc_v2} =>
                   IF u < 0 THEN last.ret = u /\ conds[last.idx].result = CONDITION_ERROR
                   ELSE /\ last.ret >= 0
                        /\ TestedTrue <=> ((p = Cgc_v2) = (u > 0))
            /\ p \notin {Cgc_v1, Cgc_v2} =>
                   IF m.r < 0 THEN last.ret = m.r /\ conds[last.idx].result = CONDITION_ERROR
                   ELSE /\ last.ret >= 0
                        /\ p \in CgcUnparseable => TestedTrue
                        /\ p \in DOMAIN CgcWanted =>
                               (TestedTrue <=> CgcWanted[p] \subseteq m.mask)

\* A parameter that names no controller, the supported mask being known: true.
C18_Witness ==
    /\ CgroupTested
    /\ ~Tested.negate
    /\ Tested.parameter = Cgc_unknown
    /\ host.cg_mask_supported = [r |-> 0, mask |-> {}]
    /\ last.ret = 1
    /\ conds[last.idx].result = CONDITION_SUCCEEDED

\* cpu and io wanted, cpu alone supported: false.
C18_WitnessSubset ==
    /\ CgroupTested
    /\ ~Tested.negate
    /\ Tested.parameter = Cgc_cpu_io
    /\ host.cg_mask_supported = [r |-> 0, mask |-> {CGROUP_MASK_CPU}]
    /\ last.ret = 0

(***************************************************************************)
(* C19: KernelCommandLine and Environment apply one matching rule to their *)
(* word list: with = in the parameter some word must equal it; otherwise   *)
(* some word must equal the parameter or start with the parameter followed *)
(* by =.  For the same word list and parameter the two give the same       *)
(* boolean.                                                                *)
(***************************************************************************)
\* The matching rule on the word list l.
WordRule(l, p) ==
    IF \E i \in DOMAIN p : p[i] = "="
    THEN \E i \in DOMAIN l : l[i] = p
    ELSE \E i \in DOMAIN l :
             \/ l[i] = p
             \/ /\ Len(l[i]) > Len(p)
                /\ SubSeq(l[i], 1, Len(p) + 1) = p \o <<"=">>

\* The same condition as the tested one, of the other kind.
OtherKind ==
    [Tested EXCEPT !.type = IF Tested.type = CONDITION_ENVIRONMENT
                            THEN CONDITION_KERNEL_COMMAND_LINE
                            ELSE CONDITION_ENVIRONMENT]

C19_OneMatchingRule ==
    TestCalled =>
        /\ Tested.type = CONDITION_ENVIRONMENT =>
               /\ last.ret >= 0
               /\ TestedTrue <=> WordRule(host.env, Tested.parameter)
        /\ (Tested.type = CONDITION_KERNEL_COMMAND_LINE /\ host.proc_cmdline.r = 0) =>
               /\ last.ret >= 0
               /\ \A l \in WordLists :
                      host.proc_cmdline.line = LineOf(l) =>
                          (TestedTrue <=> WordRule(l, Tested.parameter))
        /\ (Tested.type \in {CONDITION_KERNEL_COMMAND_LINE, CONDITION_ENVIRONMENT}
               /\ host.proc_cmdline.r = 0
               /\ host.proc_cmdline.line = LineOf(host.env))
              => condition_test(OtherKind, host).ret = last.ret

\* KernelCommandLine=a on the line "ab a=b": true by the word a=b, and the
\* environment block <<ab, a=b>> gives the same.
C19_Witness ==
    /\ TestCalled
    /\ Tested.type = CONDITION_KERNEL_COMMAND_LINE
    /\ ~Tested.negate
    /\ Tested.parameter = <<"a">>
    /\ host.env = << <<"a", "b">>, <<"a", "=", "b">> >>
    /\ host.proc_cmdline = [r |-> 0, line |-> LineOf(host.env)]
    /\ last.ret = 1

\* Environment=a with the only entry ab: false.
C19_WitnessNoMatch ==
    /\ TestCalled
    /\ Tested.type = CONDITION_ENVIRONMENT
    /\ ~Tested.negate
    /\ Tested.parameter = <<"a">>
    /\ host.env = << <<"a", "b">> >>
    /\ last.ret = 0


(***************************************************************************)
(* C20: every kind of the enumeration has an evaluator in the dispatch     *)
(* table of condition_test and a name in both name tables; within each     *)
(* name table the names are pairwise distinct; and the Assert name of a    *)
(* kind is its Condition name with the prefix Condition replaced by        *)
(* Assert.                                                                 *)
(***************************************************************************)
LookedUp == po.pc = "found" /\ po.type \in ConditionType

PrefixCondition == <<"C", "o", "n", "d", "i", "t", "i", "o", "n">>
PrefixAssert == <<"A", "s", "s", "e", "r", "t">>

C20_TablesTotalAndMirrored ==
    LookedUp =>
        /\ po.table = "condition_tests" => po.found # "NULL"
        /\ po.table = "condition_type" =>
               /\ po.found # NULL
               /\ Len(po.found) > Len(PrefixCondition)
               /\ SubSeq(po.found, 1, Len(PrefixCondition)) = PrefixCondition
               /\ \A k \in ConditionType \ {po.type} : condition_type_to_string(k) # po.found
        /\ po.table = "assert_type" =>
               /\ po.found # NULL
               /\ \A k \in ConditionType \ {po.type} : assert_type_to_string(k) # po.found
               /\ po.found = PrefixAssert
                                \o SubSeq(condition_type_to_string(po.type),
                                          Len(PrefixCondition) + 1,
                                          Len(condition_type_to_string(po.type)))

\* The Assert name of OSRelease has been looked up.
C20_Witness ==
    /\ LookedUp
    /\ po.table = "assert_type"
    /\ po.type = CONDITION_OS_RELEASE
    /\ po.found = <<"A", "s", "s", "e", "r", "t", "O", "S", "R", "e", "l", "e", "a", "s", "e">>

\* The evaluator of IOPressure has been looked up.
C20_WitnessEvaluator ==
    /\ LookedUp
    /\ po.table = "condition_tests"
    /\ po.type = CONDITION_IO_PRESSURE
    /\ po.found = "condition_test_psi"


(***************************************************************************)
(* C21: every record produced by condition_new has a kind within the       *)
(* enumeration, a parameter that is present and non-empty, and result =    *)
(* untested; condition_new produces no record for an empty parameter text. *)
(* The code asserts only that the parameter is present: the statement as   *)
(* made fails for the empty text, and holds with "present" alone.          *)
(***************************************************************************)
\* The statement as made: no record has an empty parameter.
C21_ParameterNonEmpty ==
    \A i \in DOMAIN conds :
        /\ conds[i].type \in ConditionType
        /\ conds[i].parameter # NULL
        /\ conds[i].parameter # <<>>
        /\ conds[i].result = CONDITION_UNTESTED

\* The amended statement: the parameter is present (a copy of the text given,
\* which may be empty), the kind is of the enumeration, the result untested.
C21_ParameterPresent ==
    \A i \in DOMAIN conds :
        /\ conds[i].type \in ConditionType
        /\ conds[i].parameter # NULL
        /\ conds[i].parameter \in NewParams
        /\ conds[i].result = CONDITION_UNTESTED

\* condition_new has produced a record for the empty text.
C21_Witness ==
    /\ Len(conds) = MaxLen
    /\ conds[1].parameter = <<>>
    /\ conds[1].result = CONDITION_UNTESTED
    /\ conds[2].parameter # <<>>


(***************************************************************************)
(* C22: no path predicate yields an error result for a failed probe:       *)
(* DirectoryNotEmpty gives false on ENOENT and ENOTDIR, PathIsEncrypted    *)
(* gives false on ENOENT, FileNotEmpty and FileIsExecutable give false on  *)
(* a stat failure or a file that is not regular.                           *)
(***************************************************************************)
PathTested == TestCalled /\ Tested.type \in PathKinds

\* The probes of the tested path.
DirProbe == host.dir_is_empty[Tested.parameter]
EncryptedProbe == host.path_is_encrypted[Tested.parameter]
StatProbe == host.stat[Tested.parameter]

C22_NoErrorFromFailedProbe ==
    PathTested =>
        /\ last.ret >= 0
        /\ conds[last.idx].result # CONDITION_ERROR
        /\ (Tested.type = CONDITION_DIRECTORY_NOT_EMPTY
               /\ DirProbe \in {-ENOENT, -ENOTDIR}) => ~TestedTrue
        /\ (Tested.type = CONDITION_PATH_IS_ENCRYPTED
               /\ EncryptedProbe = -ENOENT) => ~TestedTrue
        /\ (Tested.type \in {CONDITION_FILE_NOT_EMPTY, CONDITION_FILE_IS_EXECUTABLE}
               /\ (StatProbe.r < 0 \/ ~StatProbe.reg)) => ~TestedTrue

\* DirectoryNotEmpty was tested on a path whose parent is not a directory.
C22_Witness ==
    /\ PathTested
    /\ Tested.type = CONDITION_DIRECTORY_NOT_EMPTY
    /\ DirProbe = -ENOTDIR
    /\ ~Tested.negate
    /\ last.ret = 0
    /\ conds[last.idx].result = CONDITION_FAILED

\* FileIsExecutable was tested on a path stat cannot reach.
C22_WitnessStat ==
    /\ PathTested
    /\ Tested.type = CONDITION_FILE_IS_EXECUTABLE
    /\ StatProbe.r < 0
    /\ ~Tested.negate
    /\ last.ret = 0


(***************************************************************************)
(* C23: the glob comparators =$ and !=$ are accepted as operators only by  *)
(* the Firmware smbios-field evaluator, which compares the sysfs value     *)
(* (trailing whitespace stripped) with the full comparator set;            *)
(* KernelVersion, OSRelease, CPUs and Memory scan with glob disallowed, so *)
(* a =$ or !=$ prefix is never taken there as a comparison operator: the   *)
(* word is a glob pattern as a whole (KernelVersion) or an error.          *)
(***************************************************************************)
\* The operator a comparator text stands for.
OrderOf(op) == CHOOSE i \in 0..(ORDER_MAX - 1) : prefix[i] = op

\* The SMBIOS field v as the evaluator sees it.
SmbiosActual == drop_trailing(host.smbios[<<"v">>].value, WHITESPACE)

\* What the full comparator set gives for the text op and the value v.
SmbiosHolds(op, v) ==
    IF op = prefix[ORDER_FNMATCH_EQUAL] THEN fnmatch(v, SmbiosActual)
    ELSE IF op = prefix[ORDER_FNMATCH_UNEQUAL] THEN ~fnmatch(v, SmbiosActual)
    ELSE test_order(strverscmp_improved(SmbiosActual, v), OrderOf(op))

C23_GlobOnlyInSmbios ==
    TestCalled =>
        /\ \A op \in OperatorTexts, v \in GlobValues[CONDITION_FIRMWARE] :
               (Tested.type = CONDITION_FIRMWARE
                  /\ Tested.parameter = GlobParam(CONDITION_FIRMWARE, op, v))
               => (last.ret >= 0 /\ (TestedTrue <=> SmbiosHolds(op, v)))
        /\ \A op \in GlobOperators, v \in GlobValues[CONDITION_KERNEL_VERSION] :
               (Tested.type = CONDITION_KERNEL_VERSION
                  /\ Tested.parameter = GlobParam(CONDITION_KERNEL_VERSION, op, v))
               => (last.ret >= 0 /\ (TestedTrue <=> fnmatch(op \o v, host.release)))
        /\ \A type \in {CONDITION_OS_RELEASE, CONDITION_CPUS, CONDITION_MEMORY} :
             \A op \in GlobOperators, v \in GlobValues[type] :
               (Tested.type = type /\ Tested.parameter = GlobParam(type, op, v))
               => last.ret < 0

\* smbios-field(v=$x*) was tested on a host whose field v reads "x1\n".
C23_Witness ==
    /\ TestCalled
    /\ Tested.type = CONDITION_FIRMWARE
    /\ Tested.parameter = GlobParam(CONDITION_FIRMWARE, prefix[ORDER_FNMATCH_EQUAL], <<"x", "*">>)
    /\ host.smbios[<<"v">>].value = <<"x", "1", "\n">>
    /\ ~Tested.negate
    /\ last.ret = 1

\* CPUs was tested with =$4 on a host with four CPUs.
C23_WitnessCpus ==
    /\ TestCalled
    /\ Tested.type = CONDITION_CPUS
    /\ Tested.parameter = GlobParam(CONDITION_CPUS, prefix[ORDER_FNMATCH_EQUAL], <<"4">>)
    /\ host.cpus_in_affinity_mask = 4
    /\ last.ret < 0

\* KernelVersion was tested with =$6* on release 6.1.0.
C23_WitnessKernelVersion ==
    /\ TestCalled
    /\ Tested.type = CONDITION_KERNEL_VERSION
    /\ Tested.parameter = GlobParam(CONDITION_KERNEL_VERSION, prefix[ORDER_FNMATCH_EQUAL], <<"6", "*">>)
    /\ host.release = Release_6_1
    /\ ~Tested.negate
    /\ last.ret = 0


(***************************************************************************)
(* C24: in KernelVersion a bare comparator followed by whitespace and the  *)
(* value as the next word is accepted only in the first sub-expression; a  *)
(* comparator with no attached value in a later sub-expression, and a bare *)
(* comparator that is the last word of the parameter, give an error.       *)
(* The loop returns false at the first sub-expression that does not hold,  *)
(* so the statement as made fails when the sub-expression in front of the  *)
(* bare comparator does not hold.                                          *)
(***************************************************************************)
\* The comparison a bare comparator and the next word make in first position.
BareHolds(op, release) ==
    test_order(strverscmp_improved(release, Value_6_0), OrderOf(op))

\* The first sub-expression may have its value as the next word.
FirstSpacedAccepted ==
    \A op \in BareOperators :
        Tested.parameter = Join(op, Value_6_0) =>
            last.ret >= 0 /\ (TestedTrue <=> BareHolds(op, host.release))

\* The statement as made: a later or a last bare comparator is always an error.
C24_BareComparatorIsError ==
    KernelVersionTested =>
        /\ FirstSpacedAccepted
        /\ \A op \in BareOperators :
               /\ Tested.parameter = op => last.ret < 0
               /\ \A w \in KernelVersionWords :
                      Tested.parameter \in {Join(w, op), Join(w, Join(op, Value_6_0))}
                      => last.ret < 0

\* The amended statement: it is an error when the sub-expression in front of
\* it holds, and the result is false, not an error, when that one does not hold.
C24_BareComparatorErrorWhenReached ==
    KernelVersionTested =>
        /\ FirstSpacedAccepted
        /\ \A op \in BareOperators :
               /\ Tested.parameter = op => last.ret = -EINVAL
               /\ \A w \in KernelVersionWords :
                      Tested.parameter \in {Join(w, op), Join(w, Join(op, Value_6_0))}
                      => IF WordHolds(w, host.release)
                         THEN last.ret = -EINVAL
                              /\ conds[last.idx].result = CONDITION_ERROR
                         ELSE last.ret >= 0 /\ ~TestedTrue

\* ">=5.10 < 6.0" on release 6.1.0: the first sub-expression holds and the
\* bare comparator after it is an error.
C24_Witness ==
    /\ KernelVersionTested
    /\ Tested.parameter = Join(Ge_5_10, Join(<<"<">>, Value_6_0))
    /\ host.release = Release_6_1
    /\ last.ret = -EINVAL

\* "<6.0 >= 6.0" on release 6.1.0: the first sub-expression does not hold
\* and the bare comparator after it is never looked at.
C24_WitnessNotReached ==
    /\ KernelVersionTested
    /\ Tested.parameter = Join(Lt_6_0, Join(<<">", "=">>, Value_6_0))
    /\ host.release = Release_6_1
    /\ ~Tested.negate
    /\ last.ret = 0
    /\ conds[last.idx].result = CONDITION_FAILED

\* "< 6.0" on release 5.4.0: the value is the next word of the first
\* sub-expression.
C24_WitnessFirstSpaced ==
    /\ KernelVersionTested
    /\ Tested.parameter = Join(<<"<">>, Value_6_0)
    /\ host.release = Release_5_4
    /\ ~Tested.negate
    /\ last.ret = 1


(***************************************************************************)
(* C25: OSRelease processes its items left to right and returns at the     *)
(* first decisive item: false at the first well-formed item that does not  *)
(* match, error at the first malformed item; a malformed item that comes   *)
(* after a non-matching item is never reported, and the result is true     *)
(* only if every item is well-formed and matches.                          *)
(***************************************************************************)
\* The verdict on the items a then b, decided at the first decisive one:
\* "error", "false" or "true".
FirstDecisive(a, b) ==
    IF a \in OsReleaseMalformedWords THEN "error"
    ELSE IF ~ItemHolds(a) THEN "false"
    ELSE IF b \in OsReleaseMalformedWords THEN "error"
    ELSE IF ~ItemHolds(b) THEN "false"
    ELSE "true"

\* The verdict of the call observed.
Verdict == IF last.ret < 0 THEN "error" ELSE IF TestedTrue THEN "true" ELSE "false"

C25_FirstDecisiveItem ==
    OsReleaseTested =>
        /\ Tested.parameter \in OsReleaseMalformedWords => Verdict = "error"
        /\ \A a, b \in OsReleaseListItems :
               Tested.parameter = Join(a, b) => Verdict = FirstDecisive(a, b)

\* "ID=debian ID=$u*" on a host whose ID is ubuntu: false, the malformed
\* second item is not reported.
C25_Witness ==
    /\ OsReleaseTested
    /\ Tested.parameter = Join(Item_ID_eq_debian, <<"I", "D", "=", "$", "u", "*">>)
    /\ OsReleaseValue(Key_ID) = <<"u", "b", "u", "n", "t", "u">>
    /\ ~Tested.negate
    /\ last.ret = 0
    /\ conds[last.idx].result = CONDITION_FAILED

\* "ID=ubuntu ID=" on a host whose ID is ubuntu: the second item is reached
\* and is an error.
C25_WitnessError ==
    /\ OsReleaseTested
    /\ Tested.parameter = Join(Item_ID_eq_ubuntu, <<"I", "D", "=">>)
    /\ OsReleaseValue(Key_ID) = <<"u", "b", "u", "n", "t", "u">>
    /\ last.ret = -EINVAL


(***************************************************************************)
(* C26: Credential consults the plain credentials directory and then the   *)
(* encrypted one: a provider that reports not-configured is skipped, a     *)
(* directory in which the name does not exist is skipped, the first        *)
(* directory that contains the name gives true, any other provider or      *)
(* access failure gives an error at once without consulting the remaining  *)
(* directory, and the result is false when no consulted directory contains *)
(* the name.                                                               *)
(***************************************************************************)
CredentialTested ==
    /\ TestCalled
    /\ Tested.type = CONDITION_CREDENTIAL
    /\ Tested.parameter \notin CredentialInvalid

\* What one directory gives for the name: "skip", "found" or "error".
Consulted(dir, name) ==
    IF dir.r = -ENXIO THEN "skip"
    ELSE IF dir.r < 0 THEN "error"
    ELSE IF name \in dir.names THEN "found"
    ELSE IF name \in dir.unreadable THEN "error"
    ELSE "skip"

\* The plain directory decides unless it is skipped.
CredentialVerdict(name) ==
    IF Consulted(host.credentials_dir, name) # "skip"
    THEN Consulted(host.credentials_dir, name)
    ELSE Consulted(host.encrypted_credentials_dir, name)

C26_PlainThenEncrypted ==
    CredentialTested =>
        CASE CredentialVerdict(Tested.parameter) = "found" -> last.ret >= 0 /\ TestedTrue
          [] CredentialVerdict(Tested.parameter) = "error" ->
                 last.ret < 0 /\ conds[last.idx].result = CONDITION_ERROR
          [] CredentialVerdict(Tested.parameter) = "skip" -> last.ret >= 0 /\ ~TestedTrue

\* The provider of the plain directory fails while the encrypted directory
\* holds the name: an error, the encrypted directory is not consulted.
C26_Witness ==
    /\ CredentialTested
    /\ Tested.parameter = Credential_a
    /\ host.credentials_dir.r = -EIO
    /\ Credential_a \in host.encrypted_credentials_dir.names
    /\ last.ret = -EIO

\* The plain directory is not configured and the encrypted one holds the name.
C26_WitnessEncrypted ==
    /\ CredentialTested
    /\ Tested.parameter = Credential_a
    /\ host.credentials_dir.r = -ENXIO
    /\ Credential_a \in host.encrypted_credentials_dir.names
    /\ ~Tested.negate
    /\ last.ret = 1


(***************************************************************************)
(* C27: condition_free_list_type(head, type) with type >= 0 removes        *)
(* exactly the conditions of that kind and returns a list holding all      *)
(* other conditions in their original relative order (the head changes     *)
(* when the first condition is removed); with type < 0 it removes every    *)
(* condition and returns the empty list.                                   *)
(***************************************************************************)
FreeCalled == last.op = "condition_free_list_type"

\* The positions of the list before the call that hold another kind.
KeptPositions == {i \in DOMAIN last.before : last.before[i].type # last.type}

\* The k-th kept position, counted from the head.
KeptPosition(k) ==
    CHOOSE i \in KeptPositions : Cardinality({j \in KeptPositions : j <= i}) = k

C27_FreeListType ==
    FreeCalled =>
        IF last.type = CONDITION_TYPE_INVALID
        THEN conds = <<>>
        ELSE /\ Len(conds) = Cardinality(KeptPositions)
             /\ \A k \in DOMAIN conds : conds[k] = last.before[KeptPosition(k)]
             /\ (last.before # <<>> /\ last.before[1].type = last.type /\ conds # <<>>)
                    => conds[1] = last.before[KeptPosition(1)] /\ KeptPosition(1) > 1

\* The first and the last of three conditions were of the kind freed: the
\* list now holds the middle one.
C27_Witness ==
    /\ FreeCalled
    /\ Len(last.before) = 3
    /\ last.type = CONDITION_PATH_EXISTS
    /\ last.before[1].type = CONDITION_PATH_EXISTS
    /\ last.before[2].type = CONDITION_AC_POWER
    /\ last.before[3].type = CONDITION_PATH_EXISTS
    /\ conds = <<last.before[2]>>

\* A list of three conditions was freed as a whole.
C27_WitnessAll ==
    /\ FreeCalled
    /\ Len(last.before) = 3
    /\ last.type = CONDITION_TYPE_INVALID
    /\ conds = <<>>


(***************************************************************************)
(* C28: the facility check of a pressure predicate comes before any        *)
(* parameter parsing: when PSI is not supported by the host,               *)
(* MemoryPressure, CPUPressure and IOPressure return true for every        *)
(* parameter, a malformed one that would otherwise give an error included; *)
(* with negate set such a condition has result failed.                     *)
(***************************************************************************)
\* The parameters that give an error on a host with PSI.
PsiMalformed == {Psi_empty, Psi_not_a_number}

C28_FacilityCheckFirst ==
    PsiTested =>
        /\ ~host.pressure_supported =>
               /\ last.ret = (IF Tested.negate THEN 0 ELSE 1)
               /\ conds[last.idx].result =
                      (IF Tested.negate THEN CONDITION_FAILED ELSE CONDITION_SUCCEEDED)
        /\ (host.pressure_supported /\ Tested.parameter \in PsiMalformed) =>
               /\ last.ret < 0
               /\ conds[last.idx].result = CONDITION_ERROR

\* A negated CPUPressure with an empty parameter on a host without PSI:
\* the evaluator says true and the result is failed.
C28_Witness ==
    /\ PsiTested
    /\ ~host.pressure_supported
    /\ Tested.type = CONDITION_CPU_PRESSURE
    /\ Tested.parameter = Psi_empty
    /\ Tested.negate
    /\ last.ret = 0
    /\ conds[last.idx].result = CONDITION_FAILED

\* The same parameter on a host with PSI: an error.
C28_WitnessSupported ==
    /\ PsiTested
    /\ host.pressure_supported
    /\ Tested.parameter = Psi_empty
    /\ last.ret = -EINVAL


(***************************************************************************)
(* C29: when a logger is supplied, condition_test_list calls it exactly    *)
(* once for each condition it evaluates, in list order and before it       *)
(* returns the verdict: at warning level iff that condition's evaluator    *)
(* returned an error, at debug level otherwise; conditions skipped by the  *)
(* short-circuit are never logged.                                         *)
(***************************************************************************)
LoggedCall == ListCalled /\ last.logger

C29_LoggedOncePerEvaluated ==
    ListCalled =>
        IF last.logger
        THEN /\ last.evaluated = [i \in 1..StopAt(last.before) |-> i]
             /\ Len(last.logged) = Len(last.evaluated)
             /\ \A k \in DOMAIN last.logged :
                    /\ last.logged[k].idx = last.evaluated[k]
                    /\ last.logged[k].level \in {LOG_WARNING, LOG_DEBUG}
                    /\ last.logged[k].level = LOG_WARNING
                           <=> EvalR(last.before[last.logged[k].idx]) < 0
             /\ \A i \in DOMAIN last.before :
                    i > StopAt(last.before) =>
                        \A k \in DOMAIN last.logged : last.logged[k].idx # i
        ELSE last.logged = <<>>

\* Two regular conditions, the first one an error: one warning, and the
\* second condition is neither evaluated nor logged.
C29_Witness ==
    /\ LoggedCall
    /\ Len(last.before) = 2
    /\ ~last.before[1].trigger
    /\ Len(last.logged) = 1
    /\ last.logged[1].idx = 1
    /\ last.logged[1].level = LOG_WARNING
    /\ last.ret = 0

\* Two conditions evaluated and logged at debug level, in list order.
C29_WitnessDebug ==
    /\ LoggedCall
    /\ Len(last.logged) = 2
    /\ last.logged[1].idx = 1
    /\ last.logged[2].idx = 2
    /\ last.logged[1].level = LOG_DEBUG
    /\ last.logged[2].level = LOG_DEBUG

====
